---- MODULE Spec2Model ----
(***************************************************************************)
(* Control layer of the supervised trading bot (telegram_bot package):     *)
(* the safety gate (safety_guards.check_safety), the trade-signal          *)
(* lifecycle with its two-step approval (bot._process_trade_signal,        *)
(* bot.handle_callback, bot._execute_order), the expiry sweep and the      *)
(* brokerage-session monitor.                                              *)
(*                                                                         *)
(* Optional values of the source (Optional[float], missing rows) are       *)
(* sequences of length 0 (None) or 1 (the value).  Dollar amounts are      *)
(* whole dollars.                                                          *)
(***************************************************************************)
EXTENDS Integers, Sequences, FiniteSets, TLC

VARIABLES
    \* ---- persistent store (db.py) ----
    status,              \* trade_signals.status by signal id ("absent" = no row yet)
    user_decision,       \* trade_signals.user_decision by signal id
    user_decision_at,    \* trade_signals.user_decision_at is set, by signal id
    telegram_message_id, \* trade_signals.telegram_message_id is set, by signal id
    age_minutes,         \* (now - created_at) in whole minutes, by signal id
    trade_history,       \* the rows of trade_history
    kill_switch,         \* system_state["kill_switch"] (<<>> = no row)
    \* ---- process memory (bot.py globals) ----
    pending_signals,     \* keys of the pending_signals dict
    _ib_session_state,   \* unknown | healthy | recovering | notified
    _ib_recovery_attempts,
    \* ---- tasks of the event loop ----
    h,                   \* the update handler in flight (updates are handled one at a time)
    ps,                  \* a run of _process_trade_signal (command or scheduled scan)
    sw,                  \* scheduled_expire_signals
    mon,                 \* scheduled_session_monitor
    \* ---- environment ----
    controls,            \* inline keyboard currently shown on the signal's message
    now_et,              \* datetime.now(ET), as far as the code reads it
    \* ---- history of the run ----
    gate,                \* what check_safety returned for the record: passed or blocked
    taps,                \* what the human tapped for the id so far
    placed,              \* number of ib_place_order_iserver_account calls per id
    last_probe,          \* outcome of the latest auth-status probe that returned
    \* ---- safety gate, evaluated on its own (SpecSafety) ----
    sg_in, sg_out,
    \* ---- history of the session monitor's runs (SpecMonitor) ----
    mon_log,
    \* ---- orchestrator.Orchestrator.process_message (SpecOrchestrator) ----
    orc,                 \* the run of process_message
    \* ---- mcp_clients.MCPClientManager (SpecRegistry) ----
    _tools,              \* prefixed name -> server, original_name
    _server_tools,       \* server -> the tools it listed
    _sessions,           \* server -> MCPSession (session_id, _request_id)
    disc,                \* the run of discover_tools
    mcp_call,            \* the run of call_tool
    backend,             \* what each backend answers to a handshake and a listing
    wire,                \* tools/call requests each backend has received
    last_discovery,      \* answers and outcome of the previous complete discovery
    \* ---- mcp_clients.MCPSession, the sessions of one backend (SpecProtocol) ----
    proto,               \* the MCPSession objects, the discovery and the call on them
    \* ---- bot.check_order_fills, bot.expire_stale_orders (SpecOrders) ----
    ord                  \* the rows of trade_history and the two jobs that follow them

lifecycleVars ==
    <<status, user_decision, user_decision_at, telegram_message_id, age_minutes, trade_history, kill_switch,
      pending_signals, _ib_session_state, _ib_recovery_attempts, h, ps, sw, mon,
      controls, now_et, gate, taps, placed, last_probe>>

safetyVars == <<sg_in, sg_out>>

\* components that are checked on their own
monitorVars == <<mon_log>>

orchestratorVars == <<orc>>

registryVars ==
    <<_tools, _server_tools, _sessions, disc, mcp_call, backend, wire, last_discovery, proto>>

orderVars == <<ord>>

detachedVars == <<safetyVars, monitorVars, orchestratorVars, registryVars, orderVars>>

vars == <<lifecycleVars, detachedVars>>

(***************************************************************************)
(* Configuration (safety_guards.py, bot.py)                                *)
(***************************************************************************)
MAX_ORDER_VALUE_USD == 10000
MAX_DAILY_ORDERS == 10
MAX_DAILY_LOSS_USD == 2000
_IB_MAX_RECOVERY == 3
SIGNAL_EXPIRY_MINUTES == 30

None == <<>>
Some(v) == <<v>>
IsNone(o) == o = <<>>
\* Python truthiness of an Optional[float]: None and 0 are falsy
Truthy(o) == o # <<>> /\ o[1] # 0

TradeAction == {"BUY", "SELL", "HOLD"}

(***************************************************************************)
(* safety_guards.check_safety                                              *)
(*   ks     value read by get_system_state("kill_switch")                  *)
(*   signal [action, price, quantity, stop_loss]                           *)
(*   daily_orders, daily_pnl   get_daily_order_count(), get_daily_pnl()    *)
(* The result's checks are the dict's items in insertion order; a status   *)
(* keeps its leading word (OK, BLOQUE, IGNORE, N/A).                       *)
(***************************************************************************)
SafetyCheckResult(p, c, r) == [passed |-> p, checks |-> c, blocked_reason |-> r]

REASON_KILL == "Arret d'urgence actif. Utilise /resume pour reactiver."
REASON_VALUE == "Valeur de l'ordre depasse le maximum."
REASON_ORDERS == "Limite d'ordres journaliere atteinte."
REASON_LOSS == "Limite de pertes journaliere depassee."
REASON_STOP == "Un stop-loss est obligatoire pour les ordres d'achat."

\* rule 1 (safety_guards.py:18-25)
KillSwitchBlocksMutant(ks) == FALSE
KillSwitchBlocks(ks) == ks = Some("active")

\* rule 2 (safety_guards.py:28-38)
OrderValueChecked(signal) == Truthy(signal.price) /\ Truthy(signal.quantity)
OrderValue(signal) == signal.price[1] * signal.quantity[1]
OrderValueBlocksMutant(signal) == OrderValue(signal) >= MAX_ORDER_VALUE_USD
OrderValueBlocks(signal) == OrderValue(signal) > MAX_ORDER_VALUE_USD

\* what rule 2 records when it does not block (safety_guards.py:36-38)
ValueCheckStatusMutant(checked) == "OK"
ValueCheckStatus(checked) == IF checked THEN "OK" ELSE "IGNORE"

\* rule 3 (safety_guards.py:41-48)
DailyOrdersBlocks(daily_orders) == daily_orders >= MAX_DAILY_ORDERS

\* rule 4 (safety_guards.py:51-58)
DailyLossBlocks(daily_pnl) == daily_pnl < -MAX_DAILY_LOSS_USD

\* rule 5 (safety_guards.py:61-67)
StopLossBlocks(signal) == signal.action = "BUY" /\ IsNone(signal.stop_loss)

check_safetyMutant(ks, signal, daily_orders, daily_pnl) ==
    IF KillSwitchBlocks(ks)
    THEN SafetyCheckResult(FALSE, <<<<"arret_urgence", "BLOQUE">>>>, Some(REASON_KILL))
    ELSE
    LET c1 == <<<<"arret_urgence", "OK">>>>
        valueChecked == OrderValueChecked(signal)
    IN
    IF DailyOrdersBlocks(daily_orders)
    THEN SafetyCheckResult(FALSE, Append(c1, <<"ordres_jour", "BLOQUE">>), Some(REASON_ORDERS))
    ELSE
    IF valueChecked /\ OrderValueBlocks(signal)
    THEN SafetyCheckResult(FALSE, Append(c1, <<"valeur_ordre", "BLOQUE">>), Some(REASON_VALUE))
    ELSE
    LET c3 == c1 \o <<<<"valeur_ordre", ValueCheckStatus(valueChecked)>>,
                      <<"ordres_jour", "OK">>>>
    IN
    IF DailyLossBlocks(daily_pnl)
    THEN SafetyCheckResult(FALSE, Append(c3, <<"pertes_jour", "BLOQUE">>), Some(REASON_LOSS))
    ELSE
    LET c4 == Append(c3, <<"pertes_jour", "OK">>)
    IN
    IF StopLossBlocks(signal)
    THEN SafetyCheckResult(FALSE, Append(c4, <<"stop_loss", "BLOQUE">>), Some(REASON_STOP))
    ELSE SafetyCheckResult(TRUE,
            Append(c4, <<"stop_loss", IF signal.action # "HOLD" THEN "OK" ELSE "N/A">>),
            None)
check_safety(ks, signal, daily_orders, daily_pnl) ==
    IF KillSwitchBlocks(ks)
    THEN SafetyCheckResult(FALSE, <<<<"arret_urgence", "BLOQUE">>>>, Some(REASON_KILL))
    ELSE
    LET c1 == <<<<"arret_urgence", "OK">>>>
        valueChecked == OrderValueChecked(signal)
    IN
    IF valueChecked /\ OrderValueBlocks(signal)
    THEN SafetyCheckResult(FALSE, Append(c1, <<"valeur_ordre", "BLOQUE">>), Some(REASON_VALUE))
    ELSE
    LET c2 == Append(c1, <<"valeur_ordre", ValueCheckStatus(valueChecked)>>)
    IN
    IF DailyOrdersBlocks(daily_orders)
    THEN SafetyCheckResult(FALSE, Append(c2, <<"ordres_jour", "BLOQUE">>), Some(REASON_ORDERS))
    ELSE
    LET c3 == Append(c2, <<"ordres_jour", "OK">>)
    IN
    IF DailyLossBlocks(daily_pnl)
    THEN SafetyCheckResult(FALSE, Append(c3, <<"pertes_jour", "BLOQUE">>), Some(REASON_LOSS))
    ELSE
    LET c4 == Append(c3, <<"pertes_jour", "OK">>)
    IN
    IF StopLossBlocks(signal)
    THEN SafetyCheckResult(FALSE, Append(c4, <<"stop_loss", "BLOQUE">>), Some(REASON_STOP))
    ELSE SafetyCheckResult(TRUE,
            Append(c4, <<"stop_loss", IF signal.action # "HOLD" THEN "OK" ELSE "N/A">>),
            None)

(***************************************************************************)
(* The safety gate on its own: inputs drawn from sets that straddle every  *)
(* threshold of the five rules.                                            *)
(***************************************************************************)
KillSwitchValues == {None, Some("active"), Some("inactive")}
Prices == {None, Some(0), Some(186), Some(2000), Some(2500), Some(2501)}
Quantities == {None, Some(0), Some(4), Some(10)}
StopLosses == {None, Some(0), Some(180)}
DailyOrderCounts == {0, MAX_DAILY_ORDERS - 1, MAX_DAILY_ORDERS, MAX_DAILY_ORDERS + 1}
DailyPnls == {-MAX_DAILY_LOSS_USD - 1, -MAX_DAILY_LOSS_USD, -MAX_DAILY_LOSS_USD + 1, 0, 500}

TradeSignals ==
    [action : TradeAction, price : Prices, quantity : Quantities, stop_loss : StopLosses]

SafetyInputs ==
    [ks : KillSwitchValues, signal : TradeSignals,
     daily_orders : DailyOrderCounts, daily_pnl : DailyPnls]

(***************************************************************************)
(* Signal lifecycle: state                                                 *)
(***************************************************************************)
MaxSignals == 1
Signals == 1..MaxSignals

\* models.SignalStatus, plus "absent" for an id the store has not issued yet
SignalStatus ==
    {"pending", "approved", "rejected", "expired", "executed", "failed", "safety_blocked"}
Terminal == {"executed", "rejected", "expired", "failed", "safety_blocked"}

\* datetime.now(ET) as bot.is_us_market_open reads it: a Saturday or Sunday, a
\* date of US_MARKET_HOLIDAYS, or a trading day before 9:30, from 9:30 to 16:00,
\* or from 16:00 on
Clock == {"weekend", "holiday", "pre", "open", "after"}
is_us_market_openMutant(t) == <<TRUE, "">>
is_us_market_open(t) ==
    IF t = "weekend" THEN <<FALSE, "Marche ferme (samedi/dimanche)">>
    ELSE IF t = "holiday" THEN <<FALSE, "Marche ferme (jour ferie US)">>
    ELSE IF t = "pre" THEN <<FALSE, "Pre-market">>
    ELSE IF t = "after" THEN <<FALSE, "After-hours">>
    ELSE <<TRUE, "">>

\* Inline keyboards the bot sends, and the callback_data their buttons carry
Keyboards == {"none", "approve_reject", "confirm_cancel", "ok", "force_cancel"}
Buttons(kb) ==
    CASE kb = "approve_reject" -> {"approve", "reject"}
      [] kb = "confirm_cancel" -> {"confirm_exec", "cancel_exec"}
      [] kb = "ok"             -> {"cancel_exec"}
      [] kb = "force_cancel"   -> {"force_exec", "cancel_exec"}
      [] OTHER                 -> {}

\* keyboard of the notification sent by _process_trade_signal
SignalKeyboard(passed) == IF passed THEN "approve_reject" ELSE "none"

\* status _process_trade_signal inserts the record with
InsertStatusMutant(passed) == "pending"
InsertStatus(passed) == IF passed THEN "pending" ELSE "safety_blocked"

\* whether _process_trade_signal stores the signal in pending_signals
TracksPendingMutant(passed) == FALSE
TracksPending(passed) == passed

\* keyboard _handle_confirm_execute shows when the market is not open
ClosedKeyboard(t) == IF t \in {"weekend", "holiday"} THEN "ok" ELSE "force_cancel"

\* handle_callback: the handler a callback_data prefix is routed to
CallbackTargetMutant(kind) ==
    CASE kind = "approve"      -> "_execute_order"
      [] kind = "confirm_exec" -> "_handle_confirm_execute"
      [] kind = "cancel_exec"  -> "_handle_cancel_execute"
      [] kind = "reject"       -> "_handle_reject"
      [] kind = "force_exec"   -> "_execute_order"
CallbackTarget(kind) ==
    CASE kind = "approve"      -> "_handle_approve_step1"
      [] kind = "confirm_exec" -> "_handle_confirm_execute"
      [] kind = "cancel_exec"  -> "_handle_cancel_execute"
      [] kind = "reject"       -> "_handle_reject"
      [] kind = "force_exec"   -> "_execute_order"

\* task records
HIdle == [pc |-> "idle", kind |-> "none", id |-> 0, res |-> "none"]
PsIdle == [pc |-> "idle", id |-> 0, passed |-> FALSE]
SwIdle == [pc |-> "idle", rows |-> {}, msgs |-> {}, cur |-> 0]
MonIdle == [pc |-> "idle", probe |-> "none", told |-> "none"]

\* db.get_pending_signals: ids of the rows with status='pending'
get_pending_signals == {i \in DOMAIN status : status[i] = "pending"}

\* cursor.lastrowid of the next INSERT INTO trade_signals
NextSignalId == 1 + Cardinality({i \in DOMAIN status : status[i] # "absent"})

\* db.get_daily_order_count: every trade_history row of today
get_daily_order_count == Cardinality(trade_history)

Min(S) == CHOOSE x \in S : \A y \in S : x <= y

\* process_message is not running
OrcIdle == [pc |-> "idle", i |-> 0, rounds |-> 0, attempt |-> 0, calls |-> 0,
            waits |-> <<>>, content |-> <<>>, k |-> 0, outcomes |-> <<>>,
            tool_results |-> <<>>,
            appended |-> <<>>, tools_used |-> 0, tokens_input |-> 0,
            tokens_output |-> 0, analysis_logs |-> <<>>, answer |-> <<>>,
            result |-> <<>>]

\* MCP_SERVERS in its order of definition, and the prefix of each server
MaxServers == 2
MCP_SERVERS == SubSeq(<<"ib", "market_data", "sentiment", "news">>, 1, MaxServers)
Servers == {MCP_SERVERS[k] : k \in 1..Len(MCP_SERVERS)}
Prefix(server) ==
    CASE server = "ib"          -> "ib"
      [] server = "market_data" -> "mktdata"
      [] server = "sentiment"   -> "sentiment"
      [] server = "news"        -> "news"

\* MCPClientManager.__init__, no discover_tools or call_tool running, and
\* backends that are down
DiscIdle == [pc |-> "idle", k |-> 0, answers |-> <<>>]
CallIdle == [pc |-> "idle", name |-> <<>>, server |-> "none", tool |-> "none", outcome |-> "none"]
\* trade_history is empty and neither check_order_fills nor expire_stale_orders
\* is running
JobIdle == [pc |-> "idle", orders |-> <<>>, k |-> 0, status |-> "none"]
OrdersAtRest == [rows |-> <<>>, fills |-> JobIdle, stale |-> JobIdle]

\* no MCPSession was created yet for the backend
ProtoAtRest ==
    [objs |-> <<>>, registered |-> 0, catalogued |-> 0,
     d |-> [pc |-> "idle", obj |-> 0], c |-> [pc |-> "idle", obj |-> 0]]

RegistryAtRest ==
    /\ proto = ProtoAtRest
    /\ _tools = <<>>
    /\ _server_tools = <<>>
    /\ _sessions = <<>>
    /\ disc = DiscIdle
    /\ mcp_call = CallIdle
    /\ backend = [s \in Servers |-> <<"handshake_fails">>]
    /\ wire = [s \in Servers |-> 0]
    /\ last_discovery = None

InitLifecycle ==
    /\ status = [i \in Signals |-> "absent"]
    /\ user_decision = [i \in Signals |-> "none"]
    /\ user_decision_at = [i \in Signals |-> FALSE]
    /\ telegram_message_id = [i \in Signals |-> FALSE]
    /\ age_minutes = [i \in Signals |-> 0]
    /\ trade_history = {}
    /\ kill_switch = None
    /\ pending_signals = {}
    /\ _ib_session_state = "unknown"
    /\ _ib_recovery_attempts = 0
    /\ h = HIdle
    /\ ps = PsIdle
    /\ sw = SwIdle
    /\ mon = MonIdle
    /\ controls = [i \in Signals |-> "none"]
    /\ now_et \in Clock
    /\ gate = [i \in Signals |-> "absent"]
    /\ taps = [i \in Signals |-> "none"]
    /\ placed = [i \in Signals |-> 0]
    /\ last_probe = "none"

Init ==
    /\ InitLifecycle
    /\ sg_in = None
    /\ sg_out = None
    /\ mon_log = <<>>
    /\ orc = OrcIdle
    /\ RegistryAtRest
    /\ ord = OrdersAtRest

(***************************************************************************)
(* bot._process_trade_signal, run by a command handler or by               *)
(* scheduled_ideas_scan for one TradeSignal of an orchestrator answer      *)
(***************************************************************************)
ScanSignals ==
    { [action |-> "BUY",  price |-> Some(186),  quantity |-> Some(10), stop_loss |-> Some(180)],
      [action |-> "BUY",  price |-> Some(2000), quantity |-> Some(10), stop_loss |-> Some(180)],
      [action |-> "BUY",  price |-> Some(186),  quantity |-> Some(10), stop_loss |-> None],
      [action |-> "SELL", price |-> None,       quantity |-> Some(10), stop_loss |-> None] }

\* check_safety, then insert_trade_signal and (when passed) pending_signals[signal_id] = signal
_process_trade_signal ==
    /\ ps.pc = "idle"
    /\ NextSignalId \in Signals
    /\ \E signal \in ScanSignals, daily_pnl \in {0, -MAX_DAILY_LOSS_USD - 1} :
         LET safety_result == check_safety(kill_switch, signal, get_daily_order_count, daily_pnl)
             signal_id == NextSignalId
         IN /\ status' = [status EXCEPT ![signal_id] = InsertStatus(safety_result.passed)]
            /\ gate' = [gate EXCEPT ![signal_id] =
                          IF safety_result.passed THEN "passed" ELSE "blocked"]
            /\ pending_signals' =
                 IF TracksPending(safety_result.passed)
                 THEN pending_signals \cup {signal_id} ELSE pending_signals
            /\ ps' = [pc |-> "send", id |-> signal_id, passed |-> safety_result.passed]
    /\ UNCHANGED <<user_decision, user_decision_at, telegram_message_id, age_minutes, trade_history, kill_switch,
                   _ib_session_state, _ib_recovery_attempts, h, sw, mon, controls, now_et,
                   taps, placed, last_probe, detachedVars>>

\* context.bot.send_message: the notification, with the approve/reject keyboard
\* when the signal passed, then UPDATE trade_signals SET telegram_message_id;
\* a send that raises ends the run
ProcessSend ==
    /\ ps.pc = "send"
    /\ \E sent \in BOOLEAN :
         IF sent
         THEN /\ controls' = [controls EXCEPT ![ps.id] = SignalKeyboard(ps.passed)]
              /\ telegram_message_id' =
                   [telegram_message_id EXCEPT ![ps.id] = ps.passed]
         ELSE UNCHANGED <<controls, telegram_message_id>>
    /\ ps' = PsIdle
    /\ UNCHANGED <<status, user_decision, user_decision_at, age_minutes, trade_history, kill_switch,
                   pending_signals, _ib_session_state, _ib_recovery_attempts, h, sw, mon,
                   now_et, gate, taps, placed, last_probe, detachedVars>>

(***************************************************************************)
(* Commands /stop and /resume (updates are handled one at a time)          *)
(***************************************************************************)
cmd_stop ==
    /\ h.pc = "idle"
    /\ kill_switch' = Some("active")
    /\ UNCHANGED <<status, user_decision, user_decision_at, telegram_message_id, age_minutes, trade_history,
                   pending_signals, _ib_session_state, _ib_recovery_attempts, h, ps, sw, mon,
                   controls, now_et, gate, taps, placed, last_probe, detachedVars>>

cmd_resume ==
    /\ h.pc = "idle"
    /\ kill_switch' = Some("inactive")
    /\ UNCHANGED <<status, user_decision, user_decision_at, telegram_message_id, age_minutes, trade_history,
                   pending_signals, _ib_session_state, _ib_recovery_attempts, h, ps, sw, mon,
                   controls, now_et, gate, taps, placed, last_probe, detachedVars>>

(***************************************************************************)
(* Environment: the clock, and the human tapping a button that is shown    *)
(***************************************************************************)
\* the clock passes 9:30, 16:00 or midnight; a handler run lasts seconds, so
\* none is in flight across such an instant
Tick ==
    /\ h.pc = "idle"
    /\ \/ now_et = "pre" /\ now_et' = "open"
       \/ now_et = "open" /\ now_et' = "after"
       \/ now_et \in {"after", "weekend", "holiday"} /\ now_et' \in {"pre", "weekend", "holiday"}
    /\ UNCHANGED <<status, user_decision, user_decision_at, telegram_message_id, age_minutes, trade_history, kill_switch,
                   pending_signals, _ib_session_state, _ib_recovery_attempts, h, ps, sw, mon,
                   controls, gate, taps, placed, last_probe, detachedVars>>

\* a pending record becomes older than SIGNAL_EXPIRY_MINUTES (the age of a
\* record in another status is never read)
Age(i) ==
    /\ status[i] = "pending"
    /\ age_minutes[i] <= SIGNAL_EXPIRY_MINUTES
    /\ age_minutes' = [age_minutes EXCEPT ![i] = SIGNAL_EXPIRY_MINUTES + 1]
    /\ UNCHANGED <<status, user_decision, user_decision_at, telegram_message_id, trade_history, kill_switch,
                   pending_signals, _ib_session_state, _ib_recovery_attempts, h, ps, sw, mon,
                   controls, now_et, gate, taps, placed, last_probe, detachedVars>>

\* what the human has tapped for an id: approve, then confirm, then force
TapStage(old, kind) ==
    CASE kind = "approve"      -> IF old = "none" THEN "approve" ELSE old
      [] kind = "confirm_exec" -> IF old = "none" THEN "invalid"
                                  ELSE IF old = "approve" THEN "confirm" ELSE old
      [] kind = "force_exec"   -> IF old \in {"confirm", "force"} THEN "force" ELSE "invalid"
      [] OTHER                 -> old

\* a callback query arrives: handle_callback starts and awaits query.answer()
handle_callback(i, kind) ==
    /\ h.pc = "idle"
    /\ kind \in Buttons(controls[i])
    /\ h' = [pc |-> "answer", kind |-> kind, id |-> i, res |-> "none"]
    /\ taps' = [taps EXCEPT ![i] = TapStage(taps[i], kind)]
    /\ UNCHANGED <<status, user_decision, user_decision_at, telegram_message_id, age_minutes, trade_history, kill_switch,
                   pending_signals, _ib_session_state, _ib_recovery_attempts, ps, sw, mon,
                   controls, now_et, gate, placed, last_probe, detachedVars>>

(***************************************************************************)
(* bot.handle_callback and the handlers it routes to.  Every await of the  *)
(* source ends a step; a Telegram or MCP call either returns or raises.    *)
(***************************************************************************)
HandlerFrame ==
    UNCHANGED <<telegram_message_id, age_minutes, kill_switch, _ib_session_state,
                _ib_recovery_attempts, ps, sw, mon, now_et, gate, taps, detachedVars>>

\* query.edit_message_text(text, reply_markup=kb): replaces the keyboard and
\* continues at ok, or raises and continues at failed
EditMessage(i, kb, ok, failed) ==
    \E edited \in BOOLEAN :
        IF edited
        THEN controls' = [controls EXCEPT ![i] = kb] /\ h' = ok
        ELSE controls' = controls /\ h' = failed

\* db.update_signal_status(signal_id, new_status, user_decision)
update_signal_status(i, new_status, decision) ==
    /\ status' = [status EXCEPT ![i] = new_status]
    /\ user_decision' = IF decision # "none"
                        THEN [user_decision EXCEPT ![i] = decision]
                        ELSE user_decision
    /\ user_decision_at' = IF decision # "none"
                           THEN [user_decision_at EXCEPT ![i] = TRUE]
                           ELSE user_decision_at

_handle_approve_step1 ==
    /\ h.pc = "answer"
    /\ CallbackTarget(h.kind) = "_handle_approve_step1"
    /\ IF h.id \in pending_signals
       THEN EditMessage(h.id, "confirm_cancel", HIdle, HIdle)
       ELSE EditMessage(h.id, "none", HIdle, HIdle)
    /\ UNCHANGED <<status, user_decision, user_decision_at, trade_history, pending_signals, placed, last_probe>>
    /\ HandlerFrame

_handle_confirm_execute ==
    /\ h.pc = "answer"
    /\ CallbackTarget(h.kind) = "_handle_confirm_execute"
    /\ IF h.id \notin pending_signals
       THEN EditMessage(h.id, "none", HIdle, HIdle)
       ELSE IF ~is_us_market_open(now_et)[1]
       THEN EditMessage(h.id, ClosedKeyboard(now_et), HIdle, HIdle)
       ELSE /\ h' = [h EXCEPT !.pc = "ex_probe"]
            /\ controls' = controls
    /\ UNCHANGED <<status, user_decision, user_decision_at, trade_history, pending_signals, placed, last_probe>>
    /\ HandlerFrame

\* _execute_order reached from force_exec_: lines 1018-1022
_execute_order ==
    /\ h.pc = "answer"
    /\ CallbackTarget(h.kind) = "_execute_order"
    /\ IF h.id \notin pending_signals
       THEN EditMessage(h.id, "none", HIdle, HIdle)
       ELSE /\ h' = [h EXCEPT !.pc = "ex_probe"]
            /\ controls' = controls
    /\ UNCHANGED <<status, user_decision, user_decision_at, trade_history, pending_signals, placed, last_probe>>
    /\ HandlerFrame

\* _handle_reject / _handle_cancel_execute: pending_signals.pop(signal_id, None)
_handle_reject ==
    /\ h.pc = "answer"
    /\ CallbackTarget(h.kind) \in {"_handle_reject", "_handle_cancel_execute"}
    /\ pending_signals' = pending_signals \ {h.id}
    /\ h' = [h EXCEPT !.pc = "rj_write"]
    /\ UNCHANGED <<status, user_decision, user_decision_at, trade_history, controls, placed, last_probe>>
    /\ HandlerFrame

\* user_decision the two handlers pass to update_signal_status (lines 1167, 1174)
RejectDecisionMutant(target) == "rejected"
RejectDecision(target) == IF target = "_handle_reject" THEN "rejected" ELSE "cancelled"

RejectWrite ==
    /\ h.pc = "rj_write"
    /\ update_signal_status(h.id, "rejected", RejectDecision(CallbackTarget(h.kind)))
    /\ h' = [h EXCEPT !.pc = "rj_edit"]
    /\ UNCHANGED <<trade_history, pending_signals, controls, placed, last_probe>>
    /\ HandlerFrame

RejectEdit ==
    /\ h.pc = "rj_edit"
    /\ EditMessage(h.id, "none", HIdle, HIdle)
    /\ UNCHANGED <<status, user_decision, user_decision_at, trade_history, pending_signals, placed, last_probe>>
    /\ HandlerFrame

(***************************************************************************)
(* _execute_order: the session precheck (lines 1024-1062)                  *)
(***************************************************************************)
\* what ib_get_auth_status can answer: it raises, or returns connected, authenticated
ProbeOutcomes == {<<"raise">>} \cup {<<"data", c, a>> : c \in BOOLEAN, a \in BOOLEAN}
Connected(out) == out[2]
Authenticated(out) == out[3]

\* the session as the process last saw it
Observed(out) ==
    IF Connected(out) /\ Authenticated(out) THEN "ok"
    ELSE IF Connected(out) THEN "unauth" ELSE "disc"

\* line 1064: pending_signals.pop(signal_id, None), then on to the status write
Proceed ==
    /\ pending_signals' = pending_signals \ {h.id}
    /\ h' = [h EXCEPT !.pc = "ex_approve"]
    /\ controls' = controls

\* lines 1060-1062: an exception raised anywhere inside the precheck's try block
\* is logged and execution continues
PrecheckRaised == Proceed

\* lines 1044-1059: "ordre non execute", the signal stays in pending_signals; the
\* edit_message_text that says so is inside the precheck's try block
Withhold ==
    \E edited \in BOOLEAN :
        IF edited
        THEN /\ controls' = [controls EXCEPT ![h.id] = "none"]
             /\ h' = HIdle
             /\ UNCHANGED pending_signals
        ELSE PrecheckRaised

ExecProbe ==
    /\ h.pc = "ex_probe"
    /\ \E out \in ProbeOutcomes :
         IF out[1] = "raise"
         THEN /\ PrecheckRaised
              /\ last_probe' = last_probe
         ELSE /\ last_probe' = Observed(out)
              /\ IF Connected(out) /\ ~Authenticated(out)
                 THEN /\ h' = [h EXCEPT !.pc = "ex_init"]
                      /\ UNCHANGED <<controls, pending_signals>>
                 ELSE IF ~Connected(out) THEN Withhold ELSE Proceed
    /\ UNCHANGED <<status, user_decision, user_decision_at, trade_history, placed>>
    /\ HandlerFrame

\* ib_ssodh_init, asyncio.sleep(2)
ExecRecoverInit ==
    /\ h.pc = "ex_init"
    /\ \E returned \in BOOLEAN :
         IF returned
         THEN h' = [h EXCEPT !.pc = "ex_reauth"] /\ UNCHANGED <<controls, pending_signals>>
         ELSE Withhold
    /\ UNCHANGED <<status, user_decision, user_decision_at, trade_history, placed, last_probe>>
    /\ HandlerFrame

\* ib_reauthenticate, asyncio.sleep(2)
ExecRecoverReauth ==
    /\ h.pc = "ex_reauth"
    /\ \E returned \in BOOLEAN :
         IF returned
         THEN h' = [h EXCEPT !.pc = "ex_recheck"] /\ UNCHANGED <<controls, pending_signals>>
         ELSE Withhold
    /\ UNCHANGED <<status, user_decision, user_decision_at, trade_history, placed, last_probe>>
    /\ HandlerFrame

\* the second ib_get_auth_status: only its authenticated field is read
ExecRecheck ==
    /\ h.pc = "ex_recheck"
    /\ \E out \in ProbeOutcomes :
         IF out[1] = "raise"
         THEN Withhold /\ last_probe' = last_probe
         ELSE /\ last_probe' = Observed(out)
              /\ IF Authenticated(out) THEN Proceed ELSE Withhold
    /\ UNCHANGED <<status, user_decision, user_decision_at, trade_history, placed>>
    /\ HandlerFrame

(***************************************************************************)
(* _execute_order: approval stamp, order placement, outcome (1064-1162)    *)
(***************************************************************************)
ExecApprove ==
    /\ h.pc = "ex_approve"
    /\ update_signal_status(h.id, "approved", "approved")
    /\ h' = [h EXCEPT !.pc = "ex_progress"]
    /\ UNCHANGED <<trade_history, pending_signals, controls, placed, last_probe>>
    /\ HandlerFrame

\* line 1068, outside the try block: if the edit raises, the handler ends
ExecProgress ==
    /\ h.pc = "ex_progress"
    /\ EditMessage(h.id, "none", [h EXCEPT !.pc = "ex_place"], HIdle)
    /\ UNCHANGED <<status, user_decision, user_decision_at, trade_history, pending_signals, placed, last_probe>>
    /\ HandlerFrame

\* what ib_place_order_iserver_account can answer: it raises, or returns a result
\* with an order id, without one, or carrying an error field
PlaceOutcomes == {"raise", "order_id", "no_id", "error"}

\* ib_preview_order_iserver_account (its failure is ignored), then the placement
ExecPlace ==
    /\ h.pc = "ex_place"
    /\ placed' = [placed EXCEPT ![h.id] = @ + 1]
    /\ \E out \in PlaceOutcomes :
         h' = IF out = "raise"
              THEN [h EXCEPT !.pc = "ex_fail_write"]
              ELSE [h EXCEPT !.pc = "ex_history", !.res = out]
    /\ UNCHANGED <<status, user_decision, user_decision_at, trade_history, pending_signals, controls, last_probe>>
    /\ HandlerFrame

\* db.insert_trade_history(signal_id, ..., ib_order_id, status)
TradeRow(i, st, oid) == [signal_id |-> i, status |-> st, ib_order_id |-> oid]

\* insert_trade_history(status="submitted"); ib_order_id or None
ExecHistory ==
    /\ h.pc = "ex_history"
    /\ \E inserted \in BOOLEAN :
         IF inserted
         THEN /\ trade_history' =
                   trade_history \cup {TradeRow(h.id, "submitted", h.res = "order_id")}
              /\ h' = [h EXCEPT !.pc = "ex_executed"]
         ELSE /\ trade_history' = trade_history
              /\ h' = [h EXCEPT !.pc = "ex_fail_write"]
    /\ UNCHANGED <<status, user_decision, user_decision_at, pending_signals, controls, placed, last_probe>>
    /\ HandlerFrame

ExecExecuted ==
    /\ h.pc = "ex_executed"
    /\ update_signal_status(h.id, "executed", "none")
    /\ h' = [h EXCEPT !.pc = "ex_done_edit"]
    /\ UNCHANGED <<trade_history, pending_signals, controls, placed, last_probe>>
    /\ HandlerFrame

\* line 1137, still inside the try block: if the edit raises, the except branch runs
ExecDoneEdit ==
    /\ h.pc = "ex_done_edit"
    /\ EditMessage(h.id, "none", HIdle, [h EXCEPT !.pc = "ex_fail_write"])
    /\ UNCHANGED <<status, user_decision, user_decision_at, trade_history, pending_signals, placed, last_probe>>
    /\ HandlerFrame

\* except branch, lines 1145-1162
ExecFailWrite ==
    /\ h.pc = "ex_fail_write"
    /\ update_signal_status(h.id, "failed", "none")
    /\ h' = [h EXCEPT !.pc = "ex_fail_history"]
    /\ UNCHANGED <<trade_history, pending_signals, controls, placed, last_probe>>
    /\ HandlerFrame

ExecFailHistory ==
    /\ h.pc = "ex_fail_history"
    /\ \E inserted \in BOOLEAN :
         IF inserted
         THEN /\ trade_history' = trade_history \cup {TradeRow(h.id, "failed", FALSE)}
              /\ h' = [h EXCEPT !.pc = "ex_fail_edit"]
         ELSE /\ trade_history' = trade_history
              /\ h' = HIdle
    /\ UNCHANGED <<status, user_decision, user_decision_at, pending_signals, controls, placed, last_probe>>
    /\ HandlerFrame

ExecFailEdit ==
    /\ h.pc = "ex_fail_edit"
    /\ EditMessage(h.id, "none", HIdle, HIdle)
    /\ UNCHANGED <<status, user_decision, user_decision_at, trade_history, pending_signals, placed, last_probe>>
    /\ HandlerFrame

(***************************************************************************)
(* bot.scheduled_expire_signals                                            *)
(***************************************************************************)
SweepFrame ==
    UNCHANGED <<telegram_message_id, age_minutes, trade_history, kill_switch, _ib_session_state,
                _ib_recovery_attempts, h, ps, mon, now_et, gate, taps, placed,
                last_probe, detachedVars>>

\* whether the sweep expires a row it has read
ExpiresMutant(i) == age_minutes[i] >= SIGNAL_EXPIRY_MINUTES
Expires(i) == age_minutes[i] > SIGNAL_EXPIRY_MINUTES

\* rows = await get_pending_signals(); the rows that are not old enough are skipped
scheduled_expire_signals ==
    /\ sw.pc = "idle"
    /\ LET rows == {i \in get_pending_signals : Expires(i)}
       IN sw' = IF rows = {} THEN SwIdle
                ELSE [pc |-> "expire", rows |-> rows,
                      msgs |-> {i \in rows : telegram_message_id[i]}, cur |-> 0]
    /\ UNCHANGED <<status, user_decision, user_decision_at, pending_signals, controls>>
    /\ SweepFrame

\* update_signal_status(signal_id, "expired"); pending_signals.pop(signal_id, None)
SweepExpire ==
    /\ sw.pc = "expire"
    /\ LET i == Min(sw.rows)
       IN /\ update_signal_status(i, "expired", "none")
          /\ pending_signals' = pending_signals \ {i}
          /\ sw' = IF i \in sw.msgs
                   THEN [sw EXCEPT !.pc = "edit", !.cur = i]
                   ELSE IF sw.rows = {i} THEN SwIdle
                   ELSE [sw EXCEPT !.rows = @ \ {i}]
    /\ UNCHANGED controls
    /\ SweepFrame

\* _application.bot.edit_message_text for the expired signal; a failure is logged
SweepEdit ==
    /\ sw.pc = "edit"
    /\ \E edited \in BOOLEAN :
         controls' = IF edited THEN [controls EXCEPT ![sw.cur] = "none"] ELSE controls
    /\ sw' = IF sw.rows = {sw.cur} THEN SwIdle
             ELSE [sw EXCEPT !.pc = "expire", !.rows = @ \ {sw.cur}, !.cur = 0]
    /\ UNCHANGED <<status, user_decision, user_decision_at, pending_signals>>
    /\ SweepFrame

(***************************************************************************)
(* Process restart: post_init runs _reload_pending_signals before the      *)
(* scheduler starts; the store, the chat and the clock are kept            *)
(***************************************************************************)
_reload_pending_signalsMutant == {i \in DOMAIN status : status[i] \in {"pending", "approved"}}
_reload_pending_signals == get_pending_signals

post_init ==
    /\ pending_signals' = _reload_pending_signals
    /\ _ib_session_state' = "unknown"
    /\ _ib_recovery_attempts' = 0
    /\ h' = HIdle
    /\ ps' = PsIdle
    /\ sw' = SwIdle
    /\ mon' = MonIdle
    /\ last_probe' = "none"
    /\ UNCHANGED <<status, user_decision, user_decision_at, telegram_message_id, age_minutes, trade_history, kill_switch,
                   controls, now_et, gate, taps, placed, detachedVars>>

Next ==
    \/ _process_trade_signal \/ ProcessSend
    \/ cmd_stop \/ cmd_resume
    \/ Tick
    \/ \E i \in Signals : Age(i)
    \/ \E i \in Signals, kind \in {"approve", "reject", "confirm_exec", "cancel_exec", "force_exec"} :
         handle_callback(i, kind)
    \/ _handle_approve_step1 \/ _handle_confirm_execute \/ _execute_order
    \/ _handle_reject \/ RejectWrite \/ RejectEdit
    \/ ExecProbe \/ ExecRecoverInit \/ ExecRecoverReauth \/ ExecRecheck
    \/ ExecApprove \/ ExecProgress \/ ExecPlace \/ ExecHistory \/ ExecExecuted
    \/ ExecDoneEdit \/ ExecFailWrite \/ ExecFailHistory \/ ExecFailEdit
    \/ scheduled_expire_signals \/ SweepExpire \/ SweepEdit
    \/ post_init

Spec == Init /\ [][Next]_vars

\* the components that never read the clock are started at one instant
InitComponents == Init /\ now_et = "open"

(***************************************************************************)
(* The safety gate evaluated on every input of SafetyInputs                *)
(***************************************************************************)
InitSafety ==
    /\ InitLifecycle
    /\ sg_in \in SafetyInputs
    /\ sg_out = None
    /\ mon_log = <<>>
    /\ orc = OrcIdle
    /\ RegistryAtRest
    /\ ord = OrdersAtRest

EvalSafety ==
    /\ sg_out = None
    /\ sg_out' = Some(check_safety(sg_in.ks, sg_in.signal, sg_in.daily_orders, sg_in.daily_pnl))
    /\ UNCHANGED <<sg_in, lifecycleVars, monitorVars, orchestratorVars, registryVars, orderVars>>

NextSafety == EvalSafety

SpecSafety == InitSafety /\ [][NextSafety]_vars

(***************************************************************************)
(* Properties                                                              *)
(***************************************************************************)
OrderPlacedFor(i) == placed'[i] > placed[i]

C2_NoOrderWhileKillSwitchActive ==
    [][kill_switch = Some("active") => placed' = placed]_vars

\* C3: once a record's status is executed, rejected, expired, failed or
\* safety_blocked, no later step changes it.
C3_TerminalStatusIsFinal ==
    [][\A i \in Signals : status[i] \in Terminal => status'[i] = status[i]]_vars

\* C4: a confirm that resumes from the session precheck and finds the record no
\* longer pending (expired or rejected meanwhile) writes no status.
C4_ResumedConfirmIsNoOp ==
    [][(h.pc = "ex_approve" /\ h'.pc = "ex_progress" /\ status[h.id] # "pending")
          => status' = status]_vars

\* C5: no order-placement call is issued while the latest auth-status probe that
\* returned to the process reported authenticated=false or connected=false.
C5_NoOrderWhileKnownUnauthenticated ==
    [][placed' # placed => last_probe \notin {"unauth", "disc"}]_vars

\* C6: no order is placed on a weekend or holiday; before 9:30 or from 16:00 on
\* an order is placed only after a force-execute tap for that id; the confirm
\* handler places an order only while the market is open.
C6_MarketHoursGateExecution ==
    [][\A i \in Signals :
         OrderPlacedFor(i) =>
             /\ now_et \notin {"weekend", "holiday"}
             /\ now_et \in {"pre", "after"} => taps[i] = "force"
             /\ h.kind = "confirm_exec" => now_et = "open"]_vars

\* C7: a signal for which check_safety returned passed=false has status
\* safety_blocked in every state (never pending), is never in pending_signals,
\* never shows a keyboard, is never tapped and never gets an order.
C7_BlockedSignalNeverActionable ==
    \A i \in Signals :
        gate[i] = "blocked" =>
            /\ status[i] = "safety_blocked"
            /\ i \notin pending_signals
            /\ controls[i] = "none"
            /\ taps[i] = "none"
            /\ placed[i] = 0

C7_Witness ==
    \E i \in Signals : gate[i] = "blocked" /\ status[i] = "safety_blocked" /\ ps.pc = "idle"

\* C8: a signal for which check_safety returned passed=true is inserted with
\* status pending and stored in pending_signals under the id the store returned,
\* with no keyboard shown yet; the approve/reject keyboard appears only on a
\* record that was inserted that way before.
C8_PassedSignalPendingBeforeControls ==
    [][\A i \in Signals :
         /\ (gate[i] = "absent" /\ gate'[i] = "passed") =>
                /\ i = NextSignalId
                /\ status'[i] = "pending"
                /\ i \in pending_signals'
                /\ controls'[i] = "none"
         /\ (controls[i] = "none" /\ controls'[i] = "approve_reject") =>
                /\ gate[i] = "passed"
                /\ status[i] # "absent"]_vars

C8_Witness ==
    \E i \in Signals :
        /\ gate[i] = "passed" /\ status[i] = "pending"
        /\ i \in pending_signals /\ controls[i] = "approve_reject"

\* C9: whenever the kill-switch is active, check_safety returns passed=false with
\* the emergency-stop reason, whatever the signal, the daily order count and the
\* daily P&L are.
C9_KillSwitchAlwaysBlocks ==
    (sg_out # None /\ sg_in.ks = Some("active")) =>
        /\ sg_out[1].passed = FALSE
        /\ sg_out[1].blocked_reason = Some(REASON_KILL)
        /\ sg_out[1].checks = <<<<"arret_urgence", "BLOQUE">>>>

C9_Witness ==
    /\ sg_out # None /\ sg_in.ks = Some("active")
    /\ sg_in.signal.action = "SELL" /\ sg_in.daily_orders = 0 /\ sg_in.daily_pnl = 500
    /\ sg_out[1].passed = FALSE

\* C10: a BUY with stop_loss set whose price x quantity (when both are given) is
\* at most MAX_ORDER_VALUE_USD, with the daily order count below MAX_DAILY_ORDERS,
\* the daily P&L above -MAX_DAILY_LOSS_USD and the kill-switch not active, passes.
C10_CompliantBuyPasses ==
    ( /\ sg_out # None
      /\ sg_in.ks # Some("active")
      /\ sg_in.signal.action = "BUY"
      /\ sg_in.signal.stop_loss # None
      /\ (sg_in.signal.price # None /\ sg_in.signal.quantity # None) =>
             sg_in.signal.price[1] * sg_in.signal.quantity[1] <= MAX_ORDER_VALUE_USD
      /\ sg_in.daily_orders < MAX_DAILY_ORDERS
      /\ sg_in.daily_pnl > -MAX_DAILY_LOSS_USD )
    => (sg_out[1].passed = TRUE /\ sg_out[1].blocked_reason = None)

C10_Witness ==
    /\ sg_out # None
    /\ sg_in.signal.action = "BUY" /\ sg_in.signal.stop_loss # None
    /\ sg_in.signal.price = Some(2500) /\ sg_in.signal.quantity = Some(4)
    /\ sg_in.daily_orders = MAX_DAILY_ORDERS - 1
    /\ sg_in.daily_pnl = -MAX_DAILY_LOSS_USD + 1
    /\ sg_out[1].passed = TRUE

(***************************************************************************)
(* The expiry sweep and the restart reload over a store left by earlier    *)
(* runs: the process has just been launched, post_init has not run yet     *)
(* (no job is scheduled, polling has not begun)                            *)
(***************************************************************************)
MaxStored == 2
MaxAgeMinutes == 32

StoredIds == 1..MaxStored
StoredAges == (SIGNAL_EXPIRY_MINUTES - 1)..(SIGNAL_EXPIRY_MINUTES + 1)

\* a task of a process whose post_init has not run
NotStarted(task) == [task EXCEPT !.pc = "stopped"]

InitStore ==
    /\ status \in [StoredIds -> SignalStatus]
    /\ age_minutes \in [StoredIds -> StoredAges]
    \* ids are issued in the order of created_at
    /\ \A i, j \in StoredIds : i < j => age_minutes[i] >= age_minutes[j]
    /\ telegram_message_id \in [StoredIds -> BOOLEAN]
    /\ \A i \in StoredIds : telegram_message_id[i] => status[i] # "safety_blocked"
    /\ user_decision = [i \in StoredIds |-> "none"]
    /\ user_decision_at = [i \in StoredIds |-> FALSE]
    /\ trade_history = {}
    /\ kill_switch = None
    /\ pending_signals = {}
    /\ _ib_session_state = "unknown"
    /\ _ib_recovery_attempts = 0
    /\ h = NotStarted(HIdle)
    /\ ps = NotStarted(PsIdle)
    /\ sw = NotStarted(SwIdle)
    /\ mon = NotStarted(MonIdle)
    /\ controls = [i \in StoredIds |->
                     IF status[i] = "pending" /\ telegram_message_id[i]
                     THEN "approve_reject" ELSE "none"]
    /\ now_et = "open"
    /\ gate = [i \in StoredIds |-> IF status[i] = "safety_blocked" THEN "blocked" ELSE "passed"]
    /\ taps = [i \in StoredIds |-> "none"]
    /\ placed = [i \in StoredIds |-> 0]
    /\ last_probe = "none"
    /\ sg_in = None
    /\ sg_out = None
    /\ mon_log = <<>>
    /\ orc = OrcIdle
    /\ RegistryAtRest
    /\ ord = OrdersAtRest

\* a minute passes: datetime.now(timezone.utc) of the next sweep is a minute later
Minute ==
    /\ \A i \in DOMAIN age_minutes : age_minutes[i] < MaxAgeMinutes
    /\ age_minutes' = [i \in DOMAIN age_minutes |-> age_minutes[i] + 1]
    /\ UNCHANGED <<status, user_decision, user_decision_at, telegram_message_id, trade_history, kill_switch,
                   pending_signals, _ib_session_state, _ib_recovery_attempts, h, ps, sw, mon,
                   controls, now_et, gate, taps, placed, last_probe, detachedVars>>

NextStore ==
    \/ post_init
    \/ scheduled_expire_signals \/ SweepExpire \/ SweepEdit
    \/ Minute

SpecStore == InitStore /\ [][NextStore]_vars

\* C11: the sweep reads exactly the pending records older than
\* SIGNAL_EXPIRY_MINUTES (31 minutes yes, 29 and 30 no); it changes a pending
\* record to expired only if the record is that old, taking it out of
\* pending_signals in the same step; a record it has read leaves the sweep only
\* expired, and the sweep ends only when every record it read has left, whether
\* the edit of the notification succeeded or raised.
C11_SweepExpiresExactlyPastTTL ==
    [][/\ \A i \in DOMAIN status :
            (status[i] = "pending" /\ status'[i] = "expired") =>
                (age_minutes[i] > SIGNAL_EXPIRY_MINUTES /\ i \notin pending_signals')
       /\ (sw.pc = "idle" /\ sw'.pc = "expire") =>
            sw'.rows = {i \in DOMAIN status :
                          status[i] = "pending" /\ age_minutes[i] > SIGNAL_EXPIRY_MINUTES}
       /\ (sw.pc \in {"expire", "edit"} /\ ~post_init) =>
            \A i \in sw.rows \ sw'.rows :
                status'[i] = "expired" /\ i \notin pending_signals']_vars

\* record 1 (31 minutes old) is expired although the edit of its notification
\* raised, record 2 (30 minutes old at most) is still pending and tracked
C11_Witness ==
    /\ sw.pc = "idle"
    /\ status[1] = "expired" /\ telegram_message_id[1] /\ controls[1] = "approve_reject"
    /\ age_minutes[1] = SIGNAL_EXPIRY_MINUTES + 1
    /\ status[2] = "pending" /\ age_minutes[2] = SIGNAL_EXPIRY_MINUTES - 1
    /\ pending_signals = {2}

\* C12: the step that starts (or restarts) the process leaves pending_signals
\* equal to the set of records whose stored status is pending, changes no record
\* and leaves every task at its start; until that step no job, command, callback
\* or signal processing has run.
C12_ReloadLoadsExactlyPending ==
    [][/\ post_init =>
            /\ pending_signals' = {i \in DOMAIN status' : status'[i] = "pending"}
            /\ status' = status
            /\ h' = HIdle /\ ps' = PsIdle /\ sw' = SwIdle
       /\ (sw.pc = "stopped" /\ ~post_init) =>
            UNCHANGED <<status, pending_signals, controls, h, ps, sw, mon>>]_vars

C12_Witness ==
    /\ sw.pc = "idle" /\ h.pc = "idle"
    /\ status[1] = "approved" /\ status[2] = "pending"
    /\ pending_signals = {2}

(***************************************************************************)
(* bot.scheduled_session_monitor (every 2 minutes, one run at a time)      *)
(***************************************************************************)
MaxProbes == 4

MonitorFrame ==
    UNCHANGED <<status, user_decision, user_decision_at, telegram_message_id, age_minutes, trade_history,
                kill_switch, pending_signals, h, ps, sw, controls, now_et, gate, taps,
                placed, safetyVars, orchestratorVars, registryVars, orderVars>>

\* the run is over: what it probed, what it told the human and the state it left
MonitorReturn(probe, told, state, attempts) ==
    /\ mon' = MonIdle
    /\ mon_log' = Append(mon_log, [probe |-> probe, told |-> told,
                                   state |-> state, attempts |-> attempts])

\* line 1296: previous_state in ("recovering", "notified")
TellsRecoveredMutant(previous_state) == previous_state # "healthy"
TellsRecovered(previous_state) == previous_state \in {"recovering", "notified"}

\* lines 1283-1293 and the branch taken on the probe's answer, up to its first await
scheduled_session_monitor ==
    /\ mon.pc = "idle"
    /\ Len(mon_log) < MaxProbes
    /\ \E out \in ProbeOutcomes :
         IF out[1] = "raise"
         THEN /\ _ib_session_state' = "unknown"
              /\ UNCHANGED <<_ib_recovery_attempts, last_probe>>
              /\ MonitorReturn("raise", "none", "unknown", _ib_recovery_attempts)
         ELSE
         /\ last_probe' = Observed(out)
         /\ IF Connected(out) /\ Authenticated(out)
            THEN \* case 1
                 IF TellsRecovered(_ib_session_state)
                 THEN /\ mon' = [pc |-> "send", probe |-> "ok", told |-> "recovered"]
                      /\ UNCHANGED <<_ib_session_state, _ib_recovery_attempts, mon_log>>
                 ELSE /\ _ib_session_state' = "healthy"
                      /\ _ib_recovery_attempts' = 0
                      /\ MonitorReturn("ok", "none", "healthy", 0)
            ELSE IF Connected(out)
            THEN \* case 2
                 IF _ib_session_state = "notified"
                 THEN /\ UNCHANGED <<_ib_session_state, _ib_recovery_attempts>>
                      /\ MonitorReturn("unauth", "none", _ib_session_state, _ib_recovery_attempts)
                 ELSE /\ _ib_recovery_attempts' = _ib_recovery_attempts + 1
                      /\ IF _ib_recovery_attempts + 1 > _IB_MAX_RECOVERY
                         THEN /\ _ib_session_state' = "notified"
                              /\ mon' = [pc |-> "send", probe |-> "unauth", told |-> "expired"]
                         ELSE /\ _ib_session_state' = "recovering"
                              /\ mon' = [pc |-> "recover", probe |-> "unauth", told |-> "none"]
                      /\ UNCHANGED mon_log
            ELSE \* case 3
                 IF _ib_session_state # "notified"
                 THEN /\ _ib_session_state' = "notified"
                      /\ mon' = [pc |-> "send", probe |-> "disc", told |-> "lost"]
                      /\ UNCHANGED <<_ib_recovery_attempts, mon_log>>
                 ELSE /\ UNCHANGED <<_ib_session_state, _ib_recovery_attempts>>
                      /\ MonitorReturn("disc", "none", _ib_session_state, _ib_recovery_attempts)
    /\ MonitorFrame

\* _application.bot.send_message returns or raises (ignored); case 1 writes the
\* state after it
MonitorSend ==
    /\ mon.pc = "send"
    /\ IF mon.told = "recovered"
       THEN /\ _ib_session_state' = "healthy"
            /\ _ib_recovery_attempts' = 0
            /\ MonitorReturn(mon.probe, mon.told, "healthy", 0)
       ELSE /\ UNCHANGED <<_ib_session_state, _ib_recovery_attempts>>
            /\ MonitorReturn(mon.probe, mon.told, _ib_session_state, _ib_recovery_attempts)
    /\ UNCHANGED last_probe
    /\ MonitorFrame

\* ib_ssodh_init returns, and the run sleeps 2 s before the second command, or
\* it raises (logged) and the run is over
MonitorRecover ==
    /\ mon.pc = "recover"
    /\ \E returned \in BOOLEAN :
         IF returned
         THEN mon' = [mon EXCEPT !.pc = "reauth"] /\ UNCHANGED mon_log
         ELSE MonitorReturn(mon.probe, mon.told, _ib_session_state, _ib_recovery_attempts)
    /\ UNCHANGED <<_ib_session_state, _ib_recovery_attempts, last_probe>>
    /\ MonitorFrame

\* ib_reauthenticate returns or raises (logged)
MonitorReauth ==
    /\ mon.pc = "reauth"
    /\ MonitorReturn(mon.probe, mon.told, _ib_session_state, _ib_recovery_attempts)
    /\ UNCHANGED <<_ib_session_state, _ib_recovery_attempts, last_probe>>
    /\ MonitorFrame

NextMonitor == scheduled_session_monitor \/ MonitorSend \/ MonitorRecover \/ MonitorReauth

SpecMonitor == InitComponents /\ [][NextMonitor]_vars

\* C13: whenever three consecutive runs of the monitor probe connected and not
\* authenticated, starting from a state other than notified with the counter at
\* 0, they leave the state recovering, recovering, notified, the third one sending
\* the manual-login notification; if the next run probes connected and
\* authenticated it leaves the state healthy and the counter at 0.
C13_ThreeProbesThenNotified ==
    \A k \in 1..Len(mon_log) :
        ( /\ k + 2 <= Len(mon_log)
          /\ \A j \in k..(k + 2) : mon_log[j].probe = "unauth"
          /\ k > 1 => (mon_log[k - 1].attempts = 0 /\ mon_log[k - 1].state # "notified") )
        => /\ mon_log[k].state = "recovering"
           /\ mon_log[k + 1].state = "recovering"
           /\ mon_log[k + 2].state = "notified"
           /\ mon_log[k + 2].told = "expired"
           /\ (k + 3 <= Len(mon_log) /\ mon_log[k + 3].probe = "ok") =>
                  (mon_log[k + 3].state = "healthy" /\ mon_log[k + 3].attempts = 0)

(***************************************************************************)
(* orchestrator.Orchestrator._extract_trade_signals                        *)
(* The answer is text.split("```trade_signal")[1:]: one part per marker.   *)
(* A part is closed by a fence or not, and what stands before the fence is *)
(* what json.loads makes of it.                                            *)
(***************************************************************************)
MaxMarkers == 2

\* a JSON object with the keys that are present
JsonObject(ticker, action, quantity) ==
    [k \in {x \in {"ticker", "action", "quantity"} :
                \/ x = "ticker" /\ ticker # None
                \/ x = "action" /\ action # None
                \/ x = "quantity" /\ quantity # None} |->
        IF k = "ticker" THEN ticker[1] ELSE IF k = "action" THEN action[1] ELSE quantity[1]]

\* objects with each of ticker and action present or absent, and the complete
\* object without the optional quantity
JsonObjects ==
    {JsonObject(t, a, Some(10)) : t \in {None, Some("AAPL")},
                                  a \in {None, Some("BUY"), Some("SHORT")}}
        \cup {JsonObject(Some("AAPL"), Some("BUY"), None)}

\* what json.loads makes of the text: it raises, or returns a value that is
\* not an object (a list, null), or returns an object
JsonTexts ==
    {[type |-> ty, data |-> <<>>] : ty \in {"invalid", "array", "null"}}
        \cup {[type |-> "object", data |-> o] : o \in JsonObjects}

Markers ==
    {[closed |-> TRUE, json |-> j] : j \in JsonTexts}
        \cup {[closed |-> FALSE, json |-> [type |-> "object", data |-> JsonObject(Some("AAPL"), Some("BUY"), Some(10))]]}

Answers == UNION {[1..n -> Markers] : n \in 0..MaxMarkers}

\* data[key] of Python on what json.loads returned
Subscript(value, key) ==
    IF value.type # "object" THEN <<"raise", "TypeError">>
    ELSE IF key \notin DOMAIN value.data THEN <<"raise", "KeyError">>
    ELSE <<"value", value.data[key]>>

\* data.get(key)
Get(value, key) == IF key \in DOMAIN value.data THEN Some(value.data[key]) ELSE None

\* the body of the try block for one part: lines 196-208
ParseMarker(part) ==
    IF part.json.type = "invalid" THEN <<"raise", "JSONDecodeError">>
    ELSE
    LET data == part.json
        ticker == Subscript(data, "ticker")
        action == Subscript(data, "action")
    IN IF ticker[1] = "raise" THEN ticker
       ELSE IF action[1] = "raise" THEN action
       ELSE IF action[2] \notin TradeAction THEN <<"raise", "ValueError">>
       ELSE <<"value", [ticker |-> ticker[2], action |-> action[2],
                        quantity |-> Get(data, "quantity")]>>

\* except (json.JSONDecodeError, KeyError, ValueError)
Caught(exception) == exception \in {"JSONDecodeError", "KeyError", "ValueError"}

RECURSIVE ExtractFrom(_, _)
ExtractFrom(parts, signals) ==
    IF parts = <<>> THEN <<"return", signals>>
    ELSE IF ~Head(parts).closed THEN ExtractFrom(Tail(parts), signals)
    ELSE LET parsed == ParseMarker(Head(parts))
         IN IF parsed[1] = "value" THEN ExtractFrom(Tail(parts), Append(signals, parsed[2]))
            ELSE IF Caught(parsed[2]) THEN ExtractFrom(Tail(parts), signals)
            ELSE parsed

_extract_trade_signals(parts) == ExtractFrom(parts, <<>>)

(***************************************************************************)
(* orchestrator.Orchestrator.process_message                               *)
(***************************************************************************)
max_iterations == 15
max_retries == 4
MaxBlocks == 2
INCONCLUSIVE ==
    "Analysis reached maximum tool call iterations. Please try a more specific request."

\* for _ in range(n): whether there is an iteration after i of them
RangeHasNextMutant(i, n) == i <= n
RangeHasNext(i, n) == i < n

OrchestratorFrame ==
    UNCHANGED <<lifecycleVars, safetyVars, monitorVars, registryVars, orderVars>>

\* response.content of a tool_use response: text and tool_use blocks, each
\* tool_use block with the id the engine gave it
Block(type, id) == [type |-> type, id |-> id]
Contents ==
    UNION {[1..n -> {"text", "tool_use"}] : n \in 1..MaxBlocks}
ContentOf(types) == [k \in 1..Len(types) |-> Block(types[k], k)]

\* response.usage of one engine response
Usage == [input_tokens |-> 2, output_tokens |-> 1]

\* how self.mcp.call_tool ends: it returns the backend's result, or raises
\* ValueError (unknown tool), RuntimeError (no session, or the backend answered
\* with a JSON-RPC error) or an httpx error (transport, HTTP status)
ToolOutcomes == {"result", "ValueError", "RuntimeError", "HTTPError"}

\* lines 136-140 and 143-148: the tool_result of one tool_use block
CallFailedMutant(outcome) == outcome = "ValueError"
CallFailed(outcome) == outcome # "result"

ToolResult(block, outcome) ==
    [type |-> "tool_result", tool_use_id |-> block.id,
     content |-> IF CallFailed(outcome) THEN <<"Error calling tool: ", outcome>>
                 ELSE <<"result">>,
     is_error |-> CallFailed(outcome)]

\* tool_results.append(...)
AppendResultMutant(tool_results, r) == <<r>> \o tool_results
AppendResult(tool_results, r) == Append(tool_results, r)

\* lines 91-97: the conversation starts with the user message
process_message ==
    /\ orc.pc = "idle"
    /\ orc' = [orc EXCEPT !.pc = "loop"]
    /\ OrchestratorFrame

\* line 101, and line 181 when the loop is exhausted
OrcLoop ==
    /\ orc.pc = "loop"
    /\ orc' = IF RangeHasNext(orc.i, max_iterations)
              THEN [orc EXCEPT !.pc = "engine", !.attempt = 0, !.calls = 0,
                               !.waits = <<>>, !.rounds = @ + 1, !.content = <<>>,
                               !.k = 0, !.outcomes = <<>>, !.tool_results = <<>>,
                               !.appended = <<>>]
              ELSE [orc EXCEPT !.pc = "done", !.result = <<"return", INCONCLUSIVE, <<>>>>]
    /\ OrchestratorFrame

\* line 77: wait = 30 * (attempt + 1)
BackoffWaitMutant(attempt) == 30
BackoffWait(attempt) == 30 * (attempt + 1)

\* lines 110-111: the usage of a response is added to the totals
Counted(o) ==
    [o EXCEPT !.tokens_input = @ + Usage.input_tokens,
              !.tokens_output = @ + Usage.output_tokens]

\* one client.messages.create of _call_claude_with_retry: a tool_use response
\* (lines 114-117: the assistant message is appended), a final response, a
\* rate-limit error (retried after a sleep, max_retries times), or another
\* error; calls counts the creates of the round and waits lists its sleeps
_call_claude_with_retry ==
    /\ orc.pc = "engine"
    /\ LET called == [orc EXCEPT !.calls = @ + 1]
       IN \/ \E types \in Contents :
               orc' = [Counted(called) EXCEPT
                          !.pc = "tools", !.content = ContentOf(types), !.k = 1,
                          !.appended = <<[role |-> "assistant",
                                          content |-> ContentOf(types)]>>]
          \/ \E a \in Answers :
               orc' = [Counted(called) EXCEPT !.pc = "final", !.answer = a]
          \/ orc' = IF orc.attempt = max_retries
                    THEN [called EXCEPT !.pc = "done", !.result = <<"raise", "RateLimitError">>]
                    ELSE [called EXCEPT !.attempt = @ + 1,
                                        !.waits = Append(@, BackoffWait(orc.attempt))]
          \/ orc' = [called EXCEPT !.pc = "done", !.result = <<"raise", "APIError">>]
    /\ OrchestratorFrame

\* lines 120-148, one block of assistant_content: a tool_use block is called and
\* its result or its error becomes a tool_result, another block is passed over;
\* outcomes lists how the calls of the round ended
OrcToolCall ==
    /\ orc.pc = "tools"
    /\ orc.k <= Len(orc.content)
    /\ LET block == orc.content[orc.k]
       IN IF block.type = "tool_use"
          THEN \E outcome \in ToolOutcomes :
                 orc' = [orc EXCEPT !.k = @ + 1, !.tools_used = @ + 1,
                            !.outcomes = Append(@, outcome),
                            !.tool_results = AppendResult(@, ToolResult(block, outcome))]
          ELSE orc' = [orc EXCEPT !.k = @ + 1]
    /\ OrchestratorFrame

\* line 150: after the last block the results are appended as one user message
\* and the loop goes on
OrcAppendResults ==
    /\ orc.pc = "tools"
    /\ orc.k > Len(orc.content)
    /\ orc' = [orc EXCEPT !.pc = "loop", !.i = @ + 1,
                  !.appended = Append(@, [role |-> "user", content |-> orc.tool_results])]
    /\ OrchestratorFrame

\* lines 151-165: the final text and its trade signals
OrcFinal ==
    /\ orc.pc = "final"
    /\ LET signals == _extract_trade_signals(orc.answer)
       IN orc' = IF signals[1] = "raise"
                 THEN [orc EXCEPT !.pc = "done", !.result = signals]
                 ELSE [orc EXCEPT !.pc = "log", !.result = <<"return", "answer", signals[2]>>]
    /\ OrchestratorFrame

\* lines 168-178: insert_analysis_log writes the row, or raises; then return
\* response_text, signals
OrcLog ==
    /\ orc.pc = "log"
    /\ \E logged \in BOOLEAN :
         orc' = IF logged
                THEN [orc EXCEPT !.pc = "done",
                         !.analysis_logs = Append(@, [response |-> orc.result[2],
                                                      tools_used |-> orc.tools_used,
                                                      tokens_input |-> orc.tokens_input,
                                                      tokens_output |-> orc.tokens_output])]
                ELSE [orc EXCEPT !.pc = "done", !.result = <<"raise", "sqlite3.Error">>]
    /\ OrchestratorFrame

NextOrchestrator ==
    \/ process_message \/ OrcLoop \/ _call_claude_with_retry
    \/ OrcToolCall \/ OrcAppendResults \/ OrcFinal \/ OrcLog

\* the event loop keeps running the coroutine; every call awaited returns or raises
SpecOrchestrator == InitComponents /\ [][NextOrchestrator]_vars /\ WF_vars(NextOrchestrator)

\* C14: process_message starts at most 15 engine rounds and always ends; when
\* all 15 rounds answered with tool calls it returns the generic inconclusive
\* text with an empty signal list (it does not raise).
C14_RoundCapTerminates ==
    /\ [](/\ orc.rounds <= max_iterations
          /\ (orc.pc = "done" /\ orc.i = max_iterations) =>
                 orc.result = <<"return", INCONCLUSIVE, <<>>>>)
    /\ <>(orc.pc = "done")

C14_Witness ==
    /\ orc.pc = "done" /\ orc.i = max_iterations /\ orc.rounds = max_iterations
    /\ orc.result = <<"return", INCONCLUSIVE, <<>>>>

\* the signal a well-formed marker stands for
WellFormed(part) ==
    /\ part.closed
    /\ part.json.type = "object"
    /\ {"ticker", "action"} \subseteq DOMAIN part.json.data
    /\ part.json.data["action"] \in TradeAction

\* C15: extraction never raises, and it returns, in order, exactly one signal
\* with the marker's ticker, action and quantity for every well-formed marker of
\* the answer, and none for the others.
C15_ExtractionSkipsMalformed ==
    (orc.pc \in {"log", "done"} /\ orc.answer # <<>>) =>
        LET good == SelectSeq(orc.answer, WellFormed)
        IN /\ orc.pc = "log" => orc.result[1] = "return"
           /\ orc.result[1] = "return" =>
                /\ Len(orc.result[3]) = Len(good)
                /\ \A k \in 1..Len(good) :
                     /\ orc.result[3][k].ticker = good[k].json.data["ticker"]
                     /\ orc.result[3][k].action = good[k].json.data["action"]
                     /\ orc.result[3][k].quantity = Get(good[k].json, "quantity")
           /\ orc.result[1] = "raise" => orc.result[2] = "sqlite3.Error"

(***************************************************************************)
(* mcp_clients.MCPClientManager                                            *)
(* A prefixed name f"{prefix}_{name}" is the pair <<prefix, name>>.  An    *)
(* entry of a tools/list result is Some(name), or None when it has no      *)
(* "name" key.                                                             *)
(***************************************************************************)
MaxCalls == 2

Listings ==
    { <<>>, <<Some("get_quote")>>, <<Some("get_quote"), Some("place_order")>>,
      <<Some("get_quote"), None>> }

\* a backend fails the handshake (initialize or the initialized notification
\* raises), fails tools/list (transport error or error field), or lists tools
BackendAnswers ==
    {<<"handshake_fails">>, <<"list_fails">>} \cup {<<"tools", l>> : l \in Listings}

\* names call_tool is asked for
CallNames ==
    { <<"ib", "get_quote">>, <<"mktdata", "get_quote">>, <<"mktdata", "place_order">>,
      <<"ib", "cancel_order">>, <<"news", "get_quote">> }

\* dict.clear()
ClearedMutant(dict) == dict
Cleared(dict) == <<>>

\* the server the loop of discover_tools turns to after the except branch
AfterFailureMutant(k) == Len(MCP_SERVERS) + 1
AfterFailure(k) == k + 1

\* the name put in the tools/call request
ToolOnWireMutant(prefixed_name, tool_info) == prefixed_name
ToolOnWire(prefixed_name, tool_info) == tool_info.original_name

\* lines 154-160 over the entries of one listing: the catalog, and whether
\* tool['name'] raised KeyError
RECURSIVE RegisterTools(_, _, _)
RegisterTools(server, entries, tools) ==
    IF entries = <<>> THEN [tools |-> tools, raised |-> FALSE]
    ELSE IF Head(entries) = None THEN [tools |-> tools, raised |-> TRUE]
    ELSE RegisterTools(server, Tail(entries),
             (<<Prefix(server), Head(entries)[1]>> :>
                  [server |-> server, original_name |-> Head(entries)[1],
                   definition |-> Head(entries)]) @@ tools)

\* MCPClientManager.get_server_status, for one server
get_server_status(server) ==
    LET tools == IF server \in DOMAIN _server_tools THEN _server_tools[server] ELSE <<>>
    IN [tools_count |-> Len(tools),
        connected |-> Len(tools) > 0,
        has_session |-> server \in DOMAIN _sessions]

RegistryFrame ==
    UNCHANGED <<lifecycleVars, safetyVars, monitorVars, orchestratorVars, orderVars, proto>>

\* lines 138-140
discover_tools ==
    /\ disc.pc = "idle"
    /\ mcp_call.pc = "idle"
    /\ _tools' = Cleared(_tools)
    /\ _server_tools' = Cleared(_server_tools)
    /\ _sessions' = Cleared(_sessions)
    /\ disc' = [pc |-> "run", k |-> 1, answers |-> <<>>]
    /\ UNCHANGED <<mcp_call, backend, wire, last_discovery>>
    /\ RegistryFrame

\* one iteration of the loop over MCP_SERVERS: lines 142-164
DiscoverServer ==
    /\ disc.pc = "run"
    /\ disc.k <= Len(MCP_SERVERS)
    /\ LET server == MCP_SERVERS[disc.k]
           answer == backend[server]
       IN IF answer[1] # "tools"
          THEN /\ _server_tools' = (server :> <<>>) @@ _server_tools
               /\ UNCHANGED <<_tools, _sessions>>
               /\ disc' = [disc EXCEPT !.k = AfterFailure(disc.k),
                                       !.answers = Append(@, answer)]
          ELSE LET registered == RegisterTools(server, answer[2], _tools)
               IN /\ _sessions' = (server :> [_request_id |-> 2]) @@ _sessions
                  /\ _tools' = registered.tools
                  /\ _server_tools' =
                       (server :> IF registered.raised THEN <<>> ELSE answer[2]) @@ _server_tools
                  /\ disc' = [disc EXCEPT !.k = IF registered.raised
                                                 THEN AfterFailure(disc.k) ELSE disc.k + 1,
                                          !.answers = Append(@, answer)]
    /\ UNCHANGED <<mcp_call, backend, wire, last_discovery>>
    /\ RegistryFrame

\* the loop is over: discover_tools returns
DiscoverReturn ==
    /\ disc.pc = "run"
    /\ disc.k > Len(MCP_SERVERS)
    /\ disc' = DiscIdle
    /\ last_discovery' =
         Some([answers |-> disc.answers, tools |-> _tools,
               counts |-> [s \in Servers |-> get_server_status(s).tools_count]])
    /\ UNCHANGED <<_tools, _server_tools, _sessions, mcp_call, backend, wire>>
    /\ RegistryFrame

\* MCPClientManager.call_tool up to the POST: lines 168-180, MCPSession.call_tool
\* lines 116-122
call_tool(prefixed_name) ==
    /\ mcp_call.pc = "idle"
    /\ disc.pc = "idle"
    /\ \E s \in Servers : wire[s] < MaxCalls
    /\ IF prefixed_name \notin DOMAIN _tools
       THEN /\ mcp_call' = [CallIdle EXCEPT !.pc = "done", !.name = prefixed_name,
                                            !.outcome = "ValueError"]
            /\ UNCHANGED <<_sessions, wire>>
       ELSE LET tool_info == _tools[prefixed_name]
                server_name == tool_info.server
            IN IF server_name \notin DOMAIN _sessions
               THEN /\ mcp_call' = [CallIdle EXCEPT !.pc = "done", !.name = prefixed_name,
                                                    !.outcome = "RuntimeError"]
                    /\ UNCHANGED <<_sessions, wire>>
               ELSE /\ wire[server_name] < MaxCalls
                    /\ _sessions' = [_sessions EXCEPT ![server_name]._request_id = @ + 1]
                    /\ wire' = [wire EXCEPT ![server_name] = @ + 1]
                    /\ mcp_call' = [pc |-> "sent", name |-> prefixed_name,
                                    server |-> server_name,
                                    tool |-> ToolOnWire(prefixed_name, tool_info),
                                    outcome |-> "none"]
    /\ UNCHANGED <<_tools, _server_tools, disc, backend, last_discovery>>
    /\ RegistryFrame

\* the response: a result, an error field (RuntimeError) or a transport error
CallReturn ==
    /\ mcp_call.pc = "sent"
    /\ \E outcome \in {"result", "RuntimeError", "HTTPError"} :
         mcp_call' = [mcp_call EXCEPT !.pc = "done", !.outcome = outcome]
    /\ UNCHANGED <<_tools, _server_tools, _sessions, disc, backend, wire, last_discovery>>
    /\ RegistryFrame

\* the caller has the result or the exception
CallDone ==
    /\ mcp_call.pc = "done"
    /\ mcp_call' = CallIdle
    /\ UNCHANGED <<_tools, _server_tools, _sessions, disc, backend, wire, last_discovery>>
    /\ RegistryFrame

\* a backend goes down, comes back or changes what it lists, between two discoveries
BackendChange ==
    /\ disc.pc = "idle"
    /\ mcp_call.pc = "idle"
    /\ \E s \in Servers, answer \in BackendAnswers :
         /\ backend[s] # answer
         /\ backend' = [backend EXCEPT ![s] = answer]
    /\ UNCHANGED <<_tools, _server_tools, _sessions, disc, mcp_call, wire, last_discovery>>
    /\ RegistryFrame

NextRegistry ==
    \/ discover_tools \/ DiscoverServer \/ DiscoverReturn
    \/ \E prefixed_name \in CallNames : call_tool(prefixed_name)
    \/ CallReturn \/ CallDone
    \/ BackendChange

SpecRegistry == InitComponents /\ [][NextRegistry]_vars

\* the tools of the catalog that belong to a server
ToolsOf(server) == {n \in DOMAIN _tools : _tools[n].server = server}

\* what the backends answered in the discovery that completed last
AnswerOf(server) ==
    LET k == CHOOSE k \in 1..Len(MCP_SERVERS) : MCP_SERVERS[k] = server
    IN last_discovery[1].answers[k]

\* C16: after a discovery, a backend whose handshake or tools/list failed has no
\* session and no tool in the catalog, and get_server_status reports
\* tools_count 0 and connected=false for it, while every backend that answered
\* a well-formed listing has a session and all its tools cataloged under its
\* prefix, wherever the failing backend stands in MCP_SERVERS.
C16_BackendFailureIsIsolated ==
    (disc.pc = "idle" /\ last_discovery # None) =>
        /\ Len(last_discovery[1].answers) = Len(MCP_SERVERS)
        /\ \A s \in Servers :
             /\ AnswerOf(s)[1] \in {"handshake_fails", "list_fails"} =>
                  /\ s \notin DOMAIN _sessions
                  /\ ToolsOf(s) = {}
                  /\ get_server_status(s).tools_count = 0
                  /\ ~get_server_status(s).connected
                  /\ ~get_server_status(s).has_session
             /\ (AnswerOf(s)[1] = "tools" /\ \A k \in 1..Len(AnswerOf(s)[2]) : AnswerOf(s)[2][k] # None) =>
                  /\ s \in DOMAIN _sessions
                  /\ ToolsOf(s) = {<<Prefix(s), AnswerOf(s)[2][k][1]>> : k \in 1..Len(AnswerOf(s)[2])}
                  /\ get_server_status(s).tools_count = Len(AnswerOf(s)[2])

\* the first backend failed its handshake, the second one is cataloged
C16_Witness ==
    /\ disc.pc = "idle" /\ last_discovery # None
    /\ AnswerOf("ib") = <<"handshake_fails">>
    /\ AnswerOf("market_data") = <<"tools", <<Some("get_quote"), Some("place_order")>>>>
    /\ DOMAIN _tools = {<<"mktdata", "get_quote">>, <<"mktdata", "place_order">>}
    /\ DOMAIN _sessions = {"market_data"}

\* C17: a discovery that gets the same answers as the previous one ends with the
\* same catalog and the same per-backend tool counts; the catalog a discovery
\* ends with holds only tools listed in that run, and none of a backend that
\* failed in that run.
C17_RediscoveryIsIdempotent ==
    [][(disc.pc = "run" /\ disc'.pc = "idle") =>
          /\ (last_discovery # None /\ last_discovery[1].answers = disc.answers) =>
                /\ _tools' = last_discovery[1].tools
                /\ last_discovery'[1].counts = last_discovery[1].counts
          /\ \A n \in DOMAIN _tools' :
               LET k == CHOOSE k \in 1..Len(MCP_SERVERS) : MCP_SERVERS[k] = _tools'[n].server
               IN /\ n[1] = Prefix(_tools'[n].server)
                  /\ disc.answers[k][1] = "tools"
                  /\ \E j \in 1..Len(disc.answers[k][2]) :
                       disc.answers[k][2][j] = Some(n[2])]_vars

\* a second discovery has completed: the first backend, cataloged by the first
\* one, failed in the second one and the catalog holds the other backend only
C17_Witness ==
    /\ disc.pc = "idle" /\ last_discovery # None
    /\ AnswerOf("ib") = <<"list_fails">>
    /\ ToolsOf("ib") = {}
    /\ ToolsOf("market_data") # {}
    /\ wire["ib"] > 0

\* C18: call_tool with a name that is not in the catalog raises the unknown-tool
\* error, sends nothing and leaves the catalog, the sessions and every
\* _request_id as they were; with a known name it sends one request, carrying
\* the original name, on the session of the owning backend only.
C18_UnknownToolContactsNoBackend ==
    [][(mcp_call.pc = "idle" /\ mcp_call'.pc # "idle") =>
          LET n == mcp_call'.name
          IN /\ UNCHANGED <<_tools, _server_tools>>
             /\ IF n \notin DOMAIN _tools
                THEN /\ mcp_call'.pc = "done"
                     /\ mcp_call'.outcome = "ValueError"
                     /\ UNCHANGED <<_sessions, wire>>
                ELSE LET s == _tools[n].server
                     IN /\ mcp_call'.pc = "sent"
                        /\ mcp_call'.server = s
                        /\ mcp_call'.tool = _tools[n].original_name
                        /\ mcp_call'.tool = n[2]
                        /\ wire' = [wire EXCEPT ![s] = @ + 1]
                        /\ _sessions' = [_sessions EXCEPT ![s]._request_id = @ + 1]]_vars

\* an unknown name was refused after a known one had been sent to its backend
C18_Witness ==
    /\ mcp_call.pc = "done" /\ mcp_call.outcome = "ValueError"
    /\ mcp_call.name = <<"ib", "cancel_order">>
    /\ <<"ib", "get_quote">> \in DOMAIN _tools
    /\ wire["ib"] = 1 /\ wire["market_data"] = 0
    /\ _sessions["ib"]._request_id = 3

\* the rows of trade_history written for a signal
OrderRecordsOf(i) == {row \in trade_history : row.signal_id = i}

\* C19: for every signal id at most one order-placement call is issued and at
\* most one row is inserted in trade_history, however often confirm or
\* force-execute is delivered for the id.
C19_AtMostOneOrderPerSignal ==
    \A i \in Signals :
        /\ placed[i] <= 1
        /\ Cardinality(OrderRecordsOf(i)) <= 1

\* C20: a record's status changes only along pending -> approved,
\* approved -> executed, approved -> failed, pending -> rejected and
\* pending -> expired; a record is created pending or safety_blocked.
C20_StatusFollowsLifecycleEdges ==
    [][\A i \in Signals :
         status'[i] # status[i] =>
             <<status[i], status'[i]>> \in
                 { <<"absent", "pending">>, <<"absent", "safety_blocked">>,
                   <<"pending", "approved">>, <<"approved", "executed">>,
                   <<"approved", "failed">>, <<"pending", "rejected">>,
                   <<"pending", "expired">> }]_vars

\* positions of _execute_order after the record was stamped approved (line 1065)
AfterApprovalStamp ==
    {"ex_progress", "ex_place", "ex_history", "ex_executed", "ex_done_edit",
     "ex_fail_write", "ex_fail_history", "ex_fail_edit"}

\* C21: a handler invocation that stamped a record approved does not end (other
\* than by the process being restarted) before the record is stamped executed
\* or failed, whatever step fails after the stamp; it never ends with the
\* record approved and the signal removed from pending_signals.
C21_ApprovedIsTransient ==
    [][(h.pc \in AfterApprovalStamp /\ h'.pc = "idle" /\ ~post_init) =>
          /\ status'[h.id] \in {"executed", "failed"}
          /\ ~(status'[h.id] = "approved" /\ h.id \notin pending_signals')]_vars

\* a step of the precheck in which lines 1044-1059 decide "ordre non execute":
\* the first probe answers connected=false, the recheck answers
\* authenticated=false, or a recovery command raises
WithholdDecided ==
    \/ h.pc = "ex_probe" /\ last_probe # "disc" /\ last_probe' = "disc"
    \/ h.pc = "ex_recheck" /\ last_probe = "unauth" /\ last_probe' = "disc"
    \/ h.pc \in {"ex_init", "ex_reauth"} /\ h'.pc \in {"idle", "ex_approve"} /\ ~post_init

\* C22: when the session precheck withholds execution (backend not connected,
\* or still unauthenticated after the inline recovery) the record keeps its
\* status and decision, the signal stays in pending_signals, no trade_history
\* row is inserted and no order is placed, and the handler ends there.
C22_WithheldExecutionChangesNothing ==
    [][WithholdDecided =>
          /\ UNCHANGED <<status, user_decision, user_decision_at, pending_signals, trade_history, placed>>
          /\ h'.pc = "idle"]_vars

\* the step in which the handler of an approve tap, or of a confirm tap while
\* the market is not open, runs after query.answer()
FirstTapOrWarningHandled ==
    /\ h.pc = "answer"
    /\ h' # h
    /\ ~post_init
    /\ \/ h.kind = "approve"
       \/ h.kind = "confirm_exec" /\ now_et # "open"

\* C23: the handler of the first approval tap, and the handler of a confirm tap
\* while the market is closed or off hours, end without changing the record's
\* status or decision, pending_signals or trade_history and without calling a
\* brokerage tool; they only replace the keyboard: by confirm/cancel, by the
\* keyboard of the warning, or by none when the signal is no longer held.
C23_FirstTapAndWarningChangeNoState ==
    [][FirstTapOrWarningHandled =>
          /\ h'.pc = "idle"
          /\ UNCHANGED <<status, user_decision, user_decision_at, pending_signals, trade_history, placed,
                         last_probe>>
          /\ controls'[h.id] \in
                 { controls[h.id],
                   IF h.id \notin pending_signals THEN "none"
                   ELSE IF h.kind = "approve" THEN "confirm_cancel"
                   ELSE IF now_et \in {"pre", "after"} THEN "force_cancel" ELSE "ok" }]_vars

C23_Witness ==
    \E i \in Signals :
        /\ taps[i] = "confirm" /\ controls[i] = "force_cancel" /\ h.pc = "idle"
        /\ status[i] = "pending" /\ i \in pending_signals /\ placed[i] = 0

\* C24: the status write of a reject tap stamps the record rejected with
\* decision "rejected", that of a cancel tap stamps it rejected with decision
\* "cancelled"; both set the decision time, and the signal has left
\* pending_signals; reject is offered on the initial prompt, cancel on the
\* confirmation prompt and the warnings that follow it.
C24_RejectAndCancelRecordTheStage ==
    [][/\ (h.pc = "rj_write" /\ h'.pc = "rj_edit") =>
             /\ status'[h.id] = "rejected"
             /\ user_decision'[h.id] = IF h.kind = "reject" THEN "rejected" ELSE "cancelled"
             /\ user_decision_at'[h.id]
             /\ h.id \notin pending_signals'
       /\ (h.pc = "idle" /\ h'.pc = "answer" /\ h'.kind = "reject") =>
             controls[h'.id] = "approve_reject"
       /\ (h.pc = "idle" /\ h'.pc = "answer" /\ h'.kind = "cancel_exec") =>
             controls[h'.id] \in {"confirm_cancel", "ok", "force_cancel"}]_vars

C24_Witness ==
    \E i \in Signals :
        /\ status[i] = "rejected" /\ user_decision[i] = "cancelled" /\ user_decision_at[i]
        /\ taps[i] = "approve" /\ i \notin pending_signals /\ h.pc = "idle"

\* the five rules in the order of the source, with the reason each one reports
SafetyRules == <<"arret_urgence", "valeur_ordre", "ordres_jour", "pertes_jour", "stop_loss">>
SafetyReasons == <<REASON_KILL, REASON_VALUE, REASON_ORDERS, REASON_LOSS, REASON_STOP>>

\* rule k is violated by an input, each rule as the source tests it
RuleViolated(k, in) ==
    CASE k = 1 -> KillSwitchBlocks(in.ks)
      [] k = 2 -> OrderValueChecked(in.signal) /\ OrderValueBlocks(in.signal)
      [] k = 3 -> DailyOrdersBlocks(in.daily_orders)
      [] k = 4 -> DailyLossBlocks(in.daily_pnl)
      [] k = 5 -> StopLossBlocks(in.signal)

ViolatedRules(in) == {k \in 1..5 : RuleViolated(k, in)}

\* C25: check_safety reports the first violated rule in the order kill-switch,
\* order value, daily order count, daily P&L, stop-loss: blocked_reason is that
\* rule's reason, checks holds one entry per rule up to and including it, in
\* that order, only the last one blocked; with no rule violated the result
\* passes with five entries, none blocked.
C25_FirstViolatedRuleOnly ==
    sg_out # None =>
        LET out == sg_out[1]
            violated == ViolatedRules(sg_in)
        IN IF violated = {}
           THEN /\ out.passed /\ out.blocked_reason = None
                /\ Len(out.checks) = 5
                /\ \A j \in 1..5 : out.checks[j][1] = SafetyRules[j] /\ out.checks[j][2] # "BLOQUE"
           ELSE LET k == Min(violated)
                IN /\ ~out.passed
                   /\ out.blocked_reason = Some(SafetyReasons[k])
                   /\ Len(out.checks) = k
                   /\ \A j \in 1..k : out.checks[j][1] = SafetyRules[j]
                   /\ out.checks[k][2] = "BLOQUE"
                   /\ \A j \in 1..(k - 1) : out.checks[j][2] # "BLOQUE"

\* the order value, the order count, the P&L and the stop-loss rule are all
\* violated and the order value is reported
C25_Witness ==
    /\ sg_out # None
    /\ ViolatedRules(sg_in) = {2, 3, 4, 5}
    /\ sg_out[1].blocked_reason = Some(REASON_VALUE)
    /\ Len(sg_out[1].checks) = 2

\* rules 1 to 3 let the input through
ChecksOneToThreePass(in) == ViolatedRules(in) \cap {1, 2, 3} = {}

\* C26: when rules 1 to 3 pass, a daily P&L at or below -MAX_DAILY_LOSS_USD
\* (equal included) is blocked with the daily-loss reason; when rules 1 and 2
\* pass, a daily order count at or above MAX_DAILY_ORDERS (equal included) is
\* blocked with the daily-orders reason.
C26_LimitsBlockAtTheBoundary ==
    sg_out # None =>
        /\ (ChecksOneToThreePass(sg_in) /\ sg_in.daily_pnl <= -MAX_DAILY_LOSS_USD) =>
               /\ ~sg_out[1].passed
               /\ sg_out[1].blocked_reason = Some(REASON_LOSS)
        /\ (ViolatedRules(sg_in) \cap {1, 2} = {} /\ sg_in.daily_orders >= MAX_DAILY_ORDERS) =>
               /\ ~sg_out[1].passed
               /\ sg_out[1].blocked_reason = Some(REASON_ORDERS)

\* C27: for a signal without price or without quantity (kill-switch not
\* active) the order-value entry is recorded as skipped, neither OK nor
\* blocked, the order-value reason is not reported, and the result is what the
\* daily-count, daily-P&L and stop-loss rules decide in that order.
C27_MissingPriceOrQuantityIsSkipped ==
    ( /\ sg_out # None
      /\ ~KillSwitchBlocks(sg_in.ks)
      /\ (sg_in.signal.price = None \/ sg_in.signal.quantity = None) )
    => LET out == sg_out[1]
           later == ViolatedRules(sg_in) \cap {3, 4, 5}
       IN /\ Len(out.checks) >= 3
          /\ out.checks[2] = <<"valeur_ordre", "IGNORE">>
          /\ out.blocked_reason # Some(REASON_VALUE)
          /\ out.checks[3][1] = "ordres_jour"
          /\ out.passed <=> later = {}
          /\ later # {} => out.blocked_reason = Some(SafetyReasons[Min(later)])

C27_Witness ==
    /\ sg_out # None
    /\ sg_in.signal.price = None /\ sg_in.signal.quantity = Some(10)
    /\ sg_out[1].checks[2] = <<"valeur_ordre", "IGNORE">>
    /\ sg_out[1].blocked_reason = Some(REASON_LOSS)

(***************************************************************************)
(* The session monitor: notifications                                      *)
(***************************************************************************)
\* a run of the monitor ends in this step; its entry of the log
MonitorRunEnds == Len(mon_log') = Len(mon_log) + 1
EndedRun == mon_log'[Len(mon_log')]

\* C28: a run of the monitor whose probe answers connected and authenticated
\* leaves the state healthy and the counter 0, and sends the "recovered"
\* notification exactly when the state it found was recovering or notified;
\* so a run that follows a run which left healthy, or the first run after
\* start (state unknown), sends none.
C28_HealthyProbeResetsAndTellsOnce ==
    [][(MonitorRunEnds /\ EndedRun.probe = "ok") =>
          /\ _ib_session_state' = "healthy" /\ _ib_recovery_attempts' = 0
          /\ EndedRun.state = "healthy" /\ EndedRun.attempts = 0
          /\ EndedRun.told \in {"none", "recovered"}
          /\ EndedRun.told = "recovered" <=> _ib_session_state \in {"recovering", "notified"}
          /\ (mon_log = <<>> \/ mon_log[Len(mon_log)].state \in {"healthy", "unknown"}) =>
                 EndedRun.told = "none"]_vars

C28_Witness ==
    \E k \in 2..Len(mon_log) :
        /\ mon_log[k].probe = "ok" /\ mon_log[k].told = "recovered"
        /\ mon_log[k - 1].state = "recovering"
        /\ _ib_session_state = "healthy"

\* C29: a run that finds the state notified and probes connected and not
\* authenticated sends nothing and leaves state and counter as they were; and
\* two "manual login required" notifications, or two "backend unreachable"
\* notifications, are always separated by a run whose probe was healthy,
\* whatever the probes in between answer.
C29_NotifiedOncePerOutage ==
    /\ \A k \in 2..Len(mon_log) :
           (mon_log[k - 1].state = "notified" /\ mon_log[k].probe = "unauth") =>
               /\ mon_log[k].told = "none"
               /\ mon_log[k].state = "notified"
               /\ mon_log[k].attempts = mon_log[k - 1].attempts
    /\ \A i, j \in 1..Len(mon_log) :
           (i < j /\ mon_log[i].told = mon_log[j].told /\ mon_log[i].told \in {"expired", "lost"}) =>
               \E m \in (i + 1)..(j - 1) : mon_log[m].probe = "ok"

(***************************************************************************)
(* bot.cmd_session (/session), an update handler like handle_callback:     *)
(* updates are handled one at a time, so it runs in h                      *)
(***************************************************************************)
SessionFrame ==
    UNCHANGED <<status, user_decision, user_decision_at, telegram_message_id, age_minutes,
                trade_history, kill_switch, pending_signals, ps, sw, mon, controls, now_et,
                gate, taps, placed, detachedVars>>

SessionAt(pc) == [pc |-> pc, kind |-> "session", id |-> 0, res |-> "none"]

\* the /session update arrives; the handler awaits its first reply_text
cmd_session ==
    /\ h.pc = "idle"
    /\ h' = SessionAt("ss_hello")
    /\ UNCHANGED <<_ib_session_state, _ib_recovery_attempts, last_probe>>
    /\ SessionFrame

\* line 524: reply_text returns, or raises and the handler ends
SessionHello ==
    /\ h.pc = "ss_hello"
    /\ \E replied \in BOOLEAN : h' = IF replied THEN SessionAt("ss_probe") ELSE HIdle
    /\ UNCHANGED <<_ib_session_state, _ib_recovery_attempts, last_probe>>
    /\ SessionFrame

\* lines 526-549 and 584-585: the probe and the branch on its answer, up to the
\* next await
SessionProbe ==
    /\ h.pc = "ss_probe"
    /\ \E out \in ProbeOutcomes :
         IF out[1] = "raise"
         THEN /\ h' = SessionAt("ss_reply")
              /\ UNCHANGED <<_ib_session_state, _ib_recovery_attempts, last_probe>>
         ELSE /\ last_probe' = Observed(out)
              /\ IF Connected(out) /\ Authenticated(out)
                 THEN /\ _ib_session_state' = "healthy"
                      /\ _ib_recovery_attempts' = 0
                      /\ h' = SessionAt("ss_reply")
                 ELSE IF Connected(out)
                 THEN /\ h' = SessionAt("ss_warn")
                      /\ UNCHANGED <<_ib_session_state, _ib_recovery_attempts>>
                 ELSE /\ _ib_session_state' = "notified"
                      /\ h' = SessionAt("ss_reply")
                      /\ UNCHANGED _ib_recovery_attempts
    /\ SessionFrame

\* lines 551-557: "Tentative de recovery en cours", then the counter is reset and
\* the state set to recovering; a reply that raises ends the handler
SessionWarn ==
    /\ h.pc = "ss_warn"
    /\ \E replied \in BOOLEAN :
         IF replied
         THEN /\ _ib_recovery_attempts' = 0
              /\ _ib_session_state' = "recovering"
              /\ h' = SessionAt("ss_init")
         ELSE /\ h' = HIdle
              /\ UNCHANGED <<_ib_session_state, _ib_recovery_attempts>>
    /\ UNCHANGED last_probe
    /\ SessionFrame

\* lines 575-577: an exception inside the recovery's try block
SessionRecoveryRaised ==
    /\ _ib_session_state' = "notified"
    /\ h' = SessionAt("ss_reply")

\* ib_ssodh_init, asyncio.sleep(2)
SessionInit ==
    /\ h.pc = "ss_init"
    /\ \E returned \in BOOLEAN :
         IF returned
         THEN h' = SessionAt("ss_reauth") /\ UNCHANGED _ib_session_state
         ELSE SessionRecoveryRaised
    /\ UNCHANGED <<_ib_recovery_attempts, last_probe>>
    /\ SessionFrame

\* ib_reauthenticate, asyncio.sleep(2)
SessionReauth ==
    /\ h.pc = "ss_reauth"
    /\ \E returned \in BOOLEAN :
         IF returned
         THEN h' = SessionAt("ss_recheck") /\ UNCHANGED _ib_session_state
         ELSE SessionRecoveryRaised
    /\ UNCHANGED <<_ib_recovery_attempts, last_probe>>
    /\ SessionFrame

\* lines 564-574: the second probe; only its authenticated field is read
SessionRecheck ==
    /\ h.pc = "ss_recheck"
    /\ \E out \in ProbeOutcomes :
         IF out[1] = "raise"
         THEN SessionRecoveryRaised /\ UNCHANGED last_probe
         ELSE /\ last_probe' = Observed(out)
              /\ _ib_session_state' = IF Authenticated(out) THEN "healthy" ELSE "notified"
              /\ h' = SessionAt("ss_result")
    /\ UNCHANGED _ib_recovery_attempts
    /\ SessionFrame

\* lines 569 and 572: the reply about the recheck is inside the try block
SessionResult ==
    /\ h.pc = "ss_result"
    /\ \E replied \in BOOLEAN :
         IF replied
         THEN h' = HIdle /\ UNCHANGED _ib_session_state
         ELSE SessionRecoveryRaised
    /\ UNCHANGED <<_ib_recovery_attempts, last_probe>>
    /\ SessionFrame

\* the last reply_text of the other branches: the handler ends whether it
\* returns or raises
SessionReply ==
    /\ h.pc = "ss_reply"
    /\ h' = HIdle
    /\ UNCHANGED <<_ib_session_state, _ib_recovery_attempts, last_probe>>
    /\ SessionFrame

(***************************************************************************)
(* The three places that send the recovery commands, on one event loop:    *)
(* the monitor is a job of the AsyncIOScheduler, /session and the callback *)
(* handlers are update handlers.  The process has been up for a while: the *)
(* monitor has found the session healthy in each of its runs so far, and   *)
(* no signal has been produced yet.  The clock does not pass 9:30 or 16:00 *)
(* during the run.                                                         *)
(***************************************************************************)
\* what a run of the monitor that found the session healthy leaves in the log
HealthyRun == [probe |-> "ok", told |-> "none", state |-> "healthy", attempts |-> 0]

\* runs of the monitor that are still to come
SessionRuns == 2

InitSession ==
    /\ status = [i \in Signals |-> "absent"]
    /\ user_decision = [i \in Signals |-> "none"]
    /\ user_decision_at = [i \in Signals |-> FALSE]
    /\ telegram_message_id = [i \in Signals |-> FALSE]
    /\ age_minutes = [i \in Signals |-> 0]
    /\ trade_history = {}
    /\ kill_switch = None
    /\ pending_signals = {}
    /\ _ib_session_state = "healthy"
    /\ _ib_recovery_attempts = 0
    /\ h = HIdle
    /\ ps = PsIdle
    /\ sw = SwIdle
    /\ mon = MonIdle
    /\ controls = [i \in Signals |-> "none"]
    /\ now_et \in {"pre", "open"}
    /\ gate = [i \in Signals |-> "absent"]
    /\ taps = [i \in Signals |-> "none"]
    /\ placed = [i \in Signals |-> 0]
    /\ last_probe = "ok"
    /\ sg_in = None
    /\ sg_out = None
    /\ mon_log = [k \in 1..(MaxProbes - SessionRuns) |-> HealthyRun]
    /\ orc = OrcIdle
    /\ RegistryAtRest
    /\ ord = OrdersAtRest

NextSession ==
    \/ _process_trade_signal \/ ProcessSend
    \/ \E i \in Signals, kind \in {"approve", "reject", "confirm_exec", "cancel_exec", "force_exec"} :
         handle_callback(i, kind)
    \/ _handle_approve_step1 \/ _handle_confirm_execute \/ _execute_order
    \/ _handle_reject \/ RejectWrite \/ RejectEdit
    \/ ExecProbe \/ ExecRecoverInit \/ ExecRecoverReauth \/ ExecRecheck
    \/ ExecApprove \/ ExecProgress \/ ExecPlace \/ ExecHistory \/ ExecExecuted
    \/ ExecDoneEdit \/ ExecFailWrite \/ ExecFailHistory \/ ExecFailEdit
    \/ cmd_session \/ SessionHello \/ SessionProbe \/ SessionWarn \/ SessionInit
    \/ SessionReauth \/ SessionRecheck \/ SessionResult \/ SessionReply
    \/ NextMonitor

SpecSession == InitSession /\ [][NextSession]_vars

\* a recovery sequence is in flight: ib_ssodh_init has been called and
\* ib_reauthenticate has not returned yet
MonitorRecoveryInFlight == mon.pc \in {"recover", "reauth"}
HandlerRecoveryInFlight == h.pc \in {"ex_init", "ex_reauth", "ss_init", "ss_reauth"}

\* C30: the monitor and an update handler (the /session command or the
\* precheck of _execute_order) are never both inside their recovery sequence.
C30_OneRecoveryInFlight ==
    ~(MonitorRecoveryInFlight /\ HandlerRecoveryInFlight)

(***************************************************************************)
(* C31: the recovery counter and the session state of the monitor          *)
(***************************************************************************)
SessionStates == {"unknown", "healthy", "recovering", "notified"}

\* a run that sent the recovery sequence (lines 1339-1348): it probed connected
\* and not authenticated, told nothing and left the state recovering
IssuedRecovery(run) == run.probe = "unauth" /\ run.told = "none" /\ run.state = "recovering"

\* the runs after the healthy probe that precedes run k, up to run k
SinceHealthyProbe(k) ==
    {j \in 1..k : \A m \in j..k : mon_log[m].probe # "ok"}

\* C31: in every reachable state the recovery-attempt counter is between 0 and
\* _IB_MAX_RECOVERY and the session state is one of unknown, healthy, recovering,
\* notified; between two healthy probes at most _IB_MAX_RECOVERY runs of the
\* monitor send the recovery sequence.
C31_RecoveryCounterBounded ==
    /\ _ib_recovery_attempts \in 0.._IB_MAX_RECOVERY
    /\ _ib_session_state \in SessionStates
    /\ \A k \in 1..Len(mon_log) :
         Cardinality({j \in SinceHealthyProbe(k) : IssuedRecovery(mon_log[j])}) <= _IB_MAX_RECOVERY

(***************************************************************************)
(* C32: the retries of one engine round                                    *)
(***************************************************************************)
BackoffSchedule == <<30, 60, 90, 120>>

\* C32: in one round a rate-limited engine call is retried after the waits 30,
\* 60, 90, 120 s in this order, at most 4 times, so the round makes at most 5
\* engine calls; a fifth rate-limit error is raised to the caller; any other
\* engine error is raised by the call that met it, with no wait and no further
\* call after it.
C32_RateLimitBackoff ==
    /\ Len(orc.waits) <= max_retries
    /\ \A k \in 1..Len(orc.waits) : orc.waits[k] = BackoffSchedule[k]
    /\ \A k \in 2..Len(orc.waits) : orc.waits[k] > orc.waits[k - 1]
    /\ orc.calls <= max_retries + 1
    /\ orc.pc = "engine" => orc.calls = Len(orc.waits)
    /\ orc.pc \in {"tools", "final"} => orc.calls = Len(orc.waits) + 1
    /\ orc.result = <<"raise", "RateLimitError">> =>
          (orc.pc = "done" /\ orc.calls = max_retries + 1 /\ orc.waits = BackoffSchedule)
    /\ orc.result = <<"raise", "APIError">> =>
          (orc.pc = "done" /\ orc.calls = Len(orc.waits) + 1)

\* the fifth call of a round was rate-limited too and the error reached the caller
C32_Witness ==
    /\ orc.result = <<"raise", "RateLimitError">>
    /\ orc.calls = 5
    /\ orc.waits = <<30, 60, 90, 120>>

(***************************************************************************)
(* C33, C34: the results of one tool_calls round                           *)
(***************************************************************************)
ToolUseBlocks(content) == SelectSeq(content, LAMBDA b : b.type = "tool_use")

\* the tool_use blocks of the round that have been passed so far
Requested == ToolUseBlocks(SubSeq(orc.content, 1, Min({orc.k - 1, Len(orc.content)})))

\* the round of tool calls is over: its results are in the conversation
RoundFedBack == orc.pc = "loop" /\ Len(orc.appended) = 2

\* C33: in each tool_calls round the results hold exactly one tool_result per
\* tool_use block requested, in the order of the requests and each with the id of
\* its request, whether the call succeeded or failed; the assistant's request
\* message is appended to the conversation before the message of the results.
C33_ResultsMatchRequests ==
    /\ orc.pc = "tools" =>
         /\ orc.appended = <<[role |-> "assistant", content |-> orc.content]>>
         /\ Len(orc.tool_results) = Len(Requested)
         /\ \A k \in 1..Len(Requested) : orc.tool_results[k].tool_use_id = Requested[k].id
    /\ RoundFedBack =>
         /\ orc.appended[1] = [role |-> "assistant", content |-> orc.content]
         /\ orc.appended[2].role = "user"
         /\ LET requests == ToolUseBlocks(orc.content)
                results == orc.appended[2].content
            IN /\ Len(results) = Len(requests)
               /\ \A k \in 1..Len(requests) :
                    /\ results[k].type = "tool_result"
                    /\ results[k].tool_use_id = requests[k].id

\* a round of two tool calls, the first failed and the second answered, is fed back
C33_Witness ==
    /\ RoundFedBack
    /\ Len(ToolUseBlocks(orc.content)) = 2
    /\ orc.appended[2].content[1].is_error
    /\ ~orc.appended[2].content[2].is_error

\* C34: a tool call that fails in the loop (unknown tool, transport failure,
\* error reported by the backend) does not end the run: its tool_result is
\* flagged as an error and carries the failure message, the other tool calls of
\* the round are still made, and the loop goes on to its next round.
C34_ToolFailureIsFedBack ==
    /\ Len(orc.tool_results) = Len(orc.outcomes)
    /\ \A k \in 1..Len(orc.outcomes) :
         IF orc.outcomes[k] = "result"
         THEN /\ ~orc.tool_results[k].is_error
              /\ orc.tool_results[k].content = <<"result">>
         ELSE /\ orc.tool_results[k].is_error
              /\ orc.tool_results[k].content = <<"Error calling tool: ", orc.outcomes[k]>>
    /\ RoundFedBack =>
         /\ Len(orc.tool_results) = Len(ToolUseBlocks(orc.content))
         /\ orc.result = <<>>
    /\ orc.result # <<>> /\ orc.result[1] = "raise" =>
         orc.result[2] \notin {"ValueError", "RuntimeError", "HTTPError"}

\* the three kinds of failure can each be followed by a call that is answered
C34_Witness ==
    /\ RoundFedBack
    /\ orc.rounds = 2
    /\ Len(orc.appended[2].content) = 2
    /\ orc.outcomes = <<"RuntimeError", "result">>
    /\ orc.appended[2].content[1].content = <<"Error calling tool: ", "RuntimeError">>
    /\ orc.appended[2].content[2].content = <<"result">>

(***************************************************************************)
(* C35: the audit log of a run                                             *)
(***************************************************************************)
\* C35: every run of process_message that returns to its caller, with a final
\* answer or at the round cap, has written exactly one audit-log entry holding
\* the answer returned, the tools used and the accumulated token counts.
C35_EveryReturnedRunIsLogged ==
    (orc.pc = "done" /\ orc.result[1] = "return") =>
        /\ Len(orc.analysis_logs) = 1
        /\ orc.analysis_logs[1].response = orc.result[2]
        /\ orc.analysis_logs[1].tools_used = orc.tools_used
        /\ orc.analysis_logs[1].tokens_input = orc.tokens_input
        /\ orc.analysis_logs[1].tokens_output = orc.tokens_output

(***************************************************************************)
(* mcp_clients.MCPSession: the requests of the sessions of one backend     *)
(* proto.objs lists the MCPSession objects created for the backend, each   *)
(* with the requests it sent; proto.registered is the one in _sessions (0  *)
(* for none) and proto.catalogued the one whose tools are in _tools.       *)
(***************************************************************************)
MaxSessionObjects == 2
MaxRequests == 3

SessionTokens == {"sid-A", "sid-B"}

\* what comes back from client.post: it raises (transport error, or
\* raise_for_status), or a response with or without the mcp-session-id header
\* and a body with or without an "error" member
PostResponses ==
    {[status |-> "raise", sid |-> None, error |-> FALSE]} \cup
    [status : {"ok"}, sid : {None} \cup {Some(t) : t \in SessionTokens}, error : BOOLEAN]

\* MCPSession.__init__
NewSession ==
    [session_id |-> None, _request_id |-> 0, log |-> <<>>, handshakes |-> 0, listed |-> FALSE]

\* MCPSession._headers: the Mcp-Session-Id header, if a token was captured
Headers(session) == session.session_id

\* MCPSession._next_id, and the request built with it and sent by _post
Sent(session, method) ==
    [session EXCEPT !._request_id = @ + 1,
                    !.log = Append(@, [method |-> method, id |-> Some(session._request_id + 1),
                                       token |-> Headers(session)])]

\* lines 66-69 of _post: the token of the response is kept
Captured(session, response) ==
    IF response.status = "ok" /\ ~IsNone(response.sid)
    THEN [session EXCEPT !.session_id = response.sid]
    ELSE session

\* whether the caller of _post gets a result without error member
Succeeded(response) == response.status = "ok" /\ ~response.error

\* lines 145-152: the session is put in _sessions when initialize and
\* list_tools have both returned
RegistersMutant(response) == TRUE
Registers(response) == Succeeded(response)

ProtocolFrame ==
    UNCHANGED <<lifecycleVars, safetyVars, monitorVars, orchestratorVars, orderVars, _tools,
                _server_tools, _sessions, disc, mcp_call, backend, wire, last_discovery>>

\* discover_tools reaches the backend: the dicts were cleared (lines 138-140), a
\* new MCPSession is created and initialize sends its request
ProtoDiscover ==
    /\ proto.d.pc = "idle"
    /\ Len(proto.objs) < MaxSessionObjects
    /\ proto' = [proto EXCEPT !.objs = Append(@, Sent(NewSession, "initialize")),
                              !.registered = 0, !.catalogued = 0,
                              !.d = [pc |-> "initialize", obj |-> Len(proto.objs) + 1]]
    /\ ProtocolFrame

\* the except branch of discover_tools: the session is dropped
DiscoveryFailed(objs) ==
    [proto EXCEPT !.objs = objs, !.d = [pc |-> "idle", obj |-> 0]]

\* lines 93-100: the answer to initialize; on success the initialized
\* notification is posted, with the headers of the session and no id
ProtoInitialized ==
    /\ proto.d.pc = "initialize"
    /\ \E response \in PostResponses :
         LET o == proto.d.obj
             session == Captured(proto.objs[o], response)
         IN proto' =
              IF Succeeded(response)
              THEN [proto EXCEPT
                      !.objs[o] = [session EXCEPT
                                     !.log = Append(@, [method |-> "notifications/initialized",
                                                        id |-> None,
                                                        token |-> Headers(session)])],
                      !.d.pc = "notification"]
              ELSE DiscoveryFailed([proto.objs EXCEPT ![o] = session])
    /\ ProtocolFrame

\* line 100 returns (the status of the response is not looked at) and
\* list_tools sends its request, or the post raises
ProtoNotified ==
    /\ proto.d.pc = "notification"
    /\ \E returned \in BOOLEAN :
         LET o == proto.d.obj
         IN proto' =
              IF returned
              THEN [proto EXCEPT
                      !.objs[o] = Sent([proto.objs[o] EXCEPT !.handshakes = @ + 1], "tools/list"),
                      !.d.pc = "tools/list"]
              ELSE DiscoveryFailed(proto.objs)
    /\ ProtocolFrame

\* lines 109-112 and 149-160: the answer to tools/list; on success the session
\* and its tools are registered
ProtoListed ==
    /\ proto.d.pc = "tools/list"
    /\ \E response \in PostResponses :
         LET o == proto.d.obj
             session == Captured(proto.objs[o], response)
         IN proto' =
              IF Registers(response)
              THEN [proto EXCEPT !.objs[o] = [session EXCEPT !.listed = Succeeded(response)],
                                 !.registered = o, !.catalogued = o,
                                 !.d = [pc |-> "idle", obj |-> 0]]
              ELSE DiscoveryFailed([proto.objs EXCEPT ![o] = session])
    /\ ProtocolFrame

\* MCPClientManager.call_tool for a tool of the backend: lines 168-180 and
\* 116-122, up to the post
ProtoCall ==
    /\ proto.c.pc = "idle"
    /\ proto.catalogued # 0
    /\ proto.registered # 0
    /\ proto.objs[proto.registered]._request_id < MaxRequests
    /\ LET o == proto.registered
       IN proto' = [proto EXCEPT !.objs[o] = Sent(proto.objs[o], "tools/call"),
                                 !.c = [pc |-> "tools/call", obj |-> o]]
    /\ ProtocolFrame

\* the answer to tools/call
ProtoCalled ==
    /\ proto.c.pc = "tools/call"
    /\ \E response \in PostResponses :
         LET o == proto.c.obj
         IN proto' = [proto EXCEPT !.objs[o] = Captured(proto.objs[o], response),
                                   !.c = [pc |-> "idle", obj |-> 0]]
    /\ ProtocolFrame

NextProtocol ==
    \/ ProtoDiscover \/ ProtoInitialized \/ ProtoNotified \/ ProtoListed
    \/ ProtoCall \/ ProtoCalled

SpecProtocol == InitComponents /\ [][NextProtocol]_vars

\* the session some step of the protocol has changed the token of
TokenWritten(o) ==
    /\ o \in 1..Len(proto.objs)
    /\ proto'.objs[o].session_id # proto.objs[o].session_id

\* C36: the token of a session is written only by the handshake of a discovery
\* (the answer to initialize): the answers to tools/list and to tools/call
\* leave it as it is whatever they carry, and every request sent after a token
\* was captured carries that token.
C36_TokenWrittenOnlyByHandshake ==
    [][/\ \A o \in 1..Len(proto.objs) :
            TokenWritten(o) => (proto.d.pc = "initialize" /\ proto.d.obj = o)
       /\ \A o \in 1..Len(proto'.objs) :
            (o \in 1..Len(proto.objs) /\ Len(proto'.objs[o].log) > Len(proto.objs[o].log)
             /\ ~IsNone(proto.objs[o].session_id)) =>
                proto'.objs[o].log[Len(proto'.objs[o].log)].token = proto.objs[o].session_id]_vars

\* the requests with an id that a session has sent, in the order of sending
Numbered(session) == SelectSeq(session.log, LAMBDA r : ~IsNone(r.id))

\* C37: every tools/list or tools/call request sent on a session comes after
\* exactly one initialize request on the same session, whose handshake returned
\* without error; the tools in the catalog belong to a session that is
\* registered, and a registered session is one whose handshake and tools/list
\* both succeeded, so no call is routed to another one; the request ids of a
\* session are strictly increasing.
C37_HandshakeOnceBeforeAnyRequest ==
    /\ \A o \in 1..Len(proto.objs) :
         LET session == proto.objs[o]
         IN /\ \A k \in 1..Len(session.log) :
                 session.log[k].method \in {"tools/list", "tools/call"} =>
                     /\ Cardinality({j \in 1..(k - 1) : session.log[j].method = "initialize"}) = 1
                     /\ Cardinality({j \in 1..Len(session.log) :
                                        session.log[j].method = "initialize"}) = 1
                     /\ session.handshakes = 1
            /\ \A j, k \in 1..Len(Numbered(session)) :
                 j < k => Numbered(session)[j].id[1] < Numbered(session)[k].id[1]
    /\ proto.catalogued # 0 => proto.registered = proto.catalogued
    /\ proto.registered # 0 =>
         /\ proto.objs[proto.registered].handshakes = 1
         /\ proto.objs[proto.registered].listed
    /\ proto.c.obj # 0 =>
         /\ proto.objs[proto.c.obj].handshakes = 1
         /\ proto.objs[proto.c.obj].listed

\* the session of a second discovery has sent a call, after its handshake and
\* its listing
C37_Witness ==
    /\ Len(proto.objs) = 2
    /\ proto.c = [pc |-> "tools/call", obj |-> 2]
    /\ Len(proto.objs[2].log) = 4
    /\ proto.objs[2].log[4].method = "tools/call"
    /\ proto.objs[2].log[4].id = Some(3)

(***************************************************************************)
(* bot.check_order_fills (every 30 s) and bot.expire_stale_orders (every   *)
(* 15 min): two scheduler jobs on the event loop, each run suspended at    *)
(* its awaits.  ord.rows is trade_history in order of insertion; a row     *)
(* keeps whether it is older than 4 hours and how many times               *)
(* update_trade_fill wrote it.                                             *)
(***************************************************************************)
MaxOrders == 2

OrderFrame ==
    UNCHANGED <<lifecycleVars, safetyVars, monitorVars, orchestratorVars, registryVars>>

\* _execute_order lines 1100-1118: the broker order id taken from the placement
\* result, None when it has none (ib_order_id or None)
ExtractedOrderId(out) == IF out = "order_id" THEN Some("oid") ELSE None

\* insert_trade_history(status="submitted") after a placement that returned
OrderSubmitted ==
    /\ Len(ord.rows) < MaxOrders
    /\ \E out \in PlaceOutcomes \ {"raise"} :
         ord' = [ord EXCEPT !.rows = Append(@, [status |-> "submitted",
                                                ib_order_id |-> ExtractedOrderId(out),
                                                stale |-> FALSE, writes |-> 0])]
    /\ OrderFrame

\* time passes: a row becomes older than 4 hours
OrderAges ==
    /\ \E id \in 1..Len(ord.rows) :
         /\ ~ord.rows[id].stale
         /\ ord' = [ord EXCEPT !.rows[id].stale = TRUE]
    /\ OrderFrame

\* db.get_pending_orders: status='submitted' AND ib_order_id IS NOT NULL, oldest
\* first, each row as it is now
get_pending_orders ==
    LET ids == SelectSeq([id \in 1..Len(ord.rows) |-> id],
                         LAMBDA id : /\ ord.rows[id].status = "submitted"
                                     /\ ~IsNone(ord.rows[id].ib_order_id))
    IN [k \in 1..Len(ids) |-> [id |-> ids[k], stale |-> ord.rows[ids[k]].stale]]

\* db.update_trade_fill: UPDATE trade_history SET status=? ... WHERE id=?
update_trade_fill(rows, trade_id, new_status) ==
    [rows EXCEPT ![trade_id].status = new_status, ![trade_id].writes = @ + 1]

\* what ib_get_order_status answers for an order
BrokerStatuses == {"filled", "cancelled", "submitted"}

\* lines 1417-1421: the run reads the pending orders, and returns if there is none
check_order_fills ==
    /\ ord.fills.pc = "idle"
    /\ get_pending_orders # <<>>
    /\ ord' = [ord EXCEPT !.fills = [pc |-> "status", orders |-> get_pending_orders,
                                     k |-> 1, status |-> "none"]]
    /\ OrderFrame

\* the run goes to the next order of its list, or is over
NextOrder(job) ==
    IF job.k < Len(job.orders) THEN [job EXCEPT !.pc = "status", !.k = @ + 1, !.status = "none"]
    ELSE JobIdle

\* lines 1426-1431 and 1477-1478: ib_get_order_status answers or raises
FillsStatus ==
    /\ ord.fills.pc = "status"
    /\ \/ \E answer \in BrokerStatuses :
            ord' = [ord EXCEPT !.fills =
                       IF answer \in {"filled", "cancelled"}
                       THEN [ord.fills EXCEPT !.pc = "write", !.status = answer]
                       ELSE NextOrder(ord.fills)]
       \/ ord' = [ord EXCEPT !.fills = NextOrder(ord.fills)]
    /\ OrderFrame

\* lines 1438-1445 and 1462: update_trade_fill writes the row, or raises; the
\* notification that follows changes nothing
FillsWrite ==
    /\ ord.fills.pc = "write"
    /\ LET trade_id == ord.fills.orders[ord.fills.k].id
       IN \E written \in BOOLEAN :
            ord' = [ord EXCEPT
                      !.rows = IF written
                               THEN update_trade_fill(@, trade_id, ord.fills.status)
                               ELSE @,
                      !.fills = NextOrder(ord.fills)]
    /\ OrderFrame

\* lines 1483-1484: the run reads the pending orders and the time
expire_stale_orders ==
    /\ ord.stale.pc = "idle"
    /\ get_pending_orders # <<>>
    /\ ord' = [ord EXCEPT !.stale = [pc |-> "order", orders |-> get_pending_orders,
                                     k |-> 1, status |-> "none"]]
    /\ OrderFrame

\* lines 1486-1497, one order of the list: older than 4 hours at the time read,
\* it is written expired (a write that raises ends the run); the notification
\* that follows changes nothing
StaleOrder ==
    /\ ord.stale.pc = "order"
    /\ LET order == ord.stale.orders[ord.stale.k]
           next == IF ord.stale.k < Len(ord.stale.orders)
                   THEN [ord.stale EXCEPT !.k = @ + 1] ELSE JobIdle
       IN IF order.stale
          THEN \/ ord' = [ord EXCEPT !.rows = update_trade_fill(@, order.id, "expired"),
                                     !.stale = next]
               \/ ord' = [ord EXCEPT !.stale = JobIdle]
          ELSE ord' = [ord EXCEPT !.stale = next]
    /\ OrderFrame

\* a write of expire_stale_orders that does not raise
StaleOrderWritten ==
    /\ StaleOrder
    /\ \E id \in 1..Len(ord.rows) : ord'.rows[id].writes > ord.rows[id].writes

FillsJob == check_order_fills \/ FillsStatus \/ FillsWrite
StaleJob == expire_stale_orders \/ StaleOrder

NextOrders == OrderSubmitted \/ OrderAges \/ FillsJob \/ StaleJob

\* the scheduler keeps starting the two jobs and the event loop keeps running
\* them, time passes, and a database write that is tried again and again ends up
\* succeeding
SpecOrders ==
    /\ InitComponents
    /\ [][NextOrders]_vars
    /\ WF_vars(FillsJob) /\ WF_vars(StaleJob) /\ WF_vars(OrderAges)
    /\ SF_vars(StaleOrderWritten)

\* C38: a row of trade_history leaves submitted at most once: once it is
\* filled, cancelled or expired, no run of check_order_fills or of
\* expire_stale_orders writes its status again, not even a run that read the row
\* while it was still submitted.
C38_OrderLeavesSubmittedOnce ==
    \A id \in 1..Len(ord.rows) :
        /\ ord.rows[id].writes <= 1
        /\ ord.rows[id].writes = 0 <=> ord.rows[id].status = "submitted"

\* the row exists and its status is submitted
IsSubmitted(id) == id <= Len(ord.rows) /\ ord.rows[id].status = "submitted"

\* C39: every row inserted with status submitted ends up filled, cancelled or
\* expired, as long as the two jobs keep running, whether or not the placement
\* result held a broker order id.
C39_SubmittedOrderIsEventuallySettled ==
    \A id \in 1..MaxOrders : IsSubmitted(id) ~> ~IsSubmitted(id)

(***************************************************************************)
(* C40: what the placement result means for the signal and its order row   *)
(***************************************************************************)
\* the placement tool returned a result that reports no error
ReportsNoError(res) == res \in {"order_id", "no_id"}

\* C40: a signal is stamped executed, and a trade_history row with status
\* submitted is inserted for it, only when the placement tool returned a result
\* that reports no error; when the placement raised or returned a payload with
\* an error member, the handling of the signal ends with the signal failed and
\* no submitted row for it.
C40_ExecutedOnlyWithoutBrokerError ==
    [][/\ \A i \in Signals :
            (status'[i] = "executed" /\ status[i] # "executed") => ReportsNoError(h.res)
       /\ (\E row \in trade_history' \ trade_history : row.status = "submitted")
              => ReportsNoError(h.res)
       /\ (h.pc # "idle" /\ h'.pc = "idle" /\ placed[h.id] > 0 /\ ~ReportsNoError(h.res)
           /\ ~post_init) =>
              /\ status'[h.id] = "failed"
              /\ \A row \in trade_history' : row.signal_id = h.id => row.status # "submitted"]_vars

====
